---------------------------- MODULE Spec2Model ----------------------------
(***************************************************************************)
(* A model of the collection engine of inkress/storefront-sdk:             *)
(*   - WishlistResource (src/src/resources/wishlist.ts): asynchronous      *)
(*     calls over a Local Store and a remote generic record;               *)
(*   - CartResource (src/unnamed/part_011): synchronous calls over a       *)
(*     Local Store;                                                        *)
(*   - EventEmitter (src/src/events.ts).                                   *)
(*                                                                         *)
(* Asynchronous calls are modelled at the granularity of the JavaScript    *)
(* job queue: every `await` is a suspension point, continuations that are  *)
(* ready run in FIFO order (mq), and a network completion is a task that   *)
(* runs only when no continuation is ready.                                *)
(*                                                                         *)
(* Modelling decisions:                                                    *)
(*   - the remote generic record of the owner is one value: a successful   *)
(*     post replaces it, a successful get returns it, a failed request     *)
(*     leaves it untouched;                                                *)
(*   - item identifiers (Date.now() + Math.random()) are fresh: a counter; *)
(*   - the storage medium does not change state within a behaviour: it is  *)
(*     available, unavailable, or full (every write fails);                *)
(*   - localStore and cartStore are the entries of localStorage under the  *)
(*     keys of the current merchant; parked holds the other entries;       *)
(*   - records of calls carry history fields (before, overlapped, post,    *)
(*     early) that the code does not hold; they are only read by the       *)
(*     properties;                                                         *)
(*   - emit() is not re-entered by a handler; handlers may call on, off    *)
(*     and removeAllListeners while it runs, and may throw.                *)
(***************************************************************************)
EXTENDS Integers, Sequences, FiniteSets, TLC

(* ------------------------------ bounds -------------------------------- *)

\* Number of distinct products the application adds, removes and toggles.
NumProducts == 2

\* Total number of wishlist calls the application makes in one behaviour.
MaxCalls == 2

\* Latest reading of the clock (Date.now()); timestamps range over 0..MaxTime.
\* The clock is free-running; the model advances it where the code reads it
\* (new Date()), to any time from the last reading on.
MaxTime == 1

Products == 1..NumProducts

(* ------------------------------ values -------------------------------- *)

\* null / undefined and a present value, for T | null.
None == <<>>
Some(x) == <<x>>

SeqToSet(s) == {s[i] : i \in DOMAIN s}

\* items.some(item => item.product.id === productId)
HasProductIn(w, productId) == \E i \in DOMAIN w.items : w.items[i].product = productId

\* items.find(item => item.product.id === productId): the index of the first
\* match, 0 when there is none.
FindProduct(w, productId) ==
    IF HasProductIn(w, productId)
    THEN CHOOSE i \in DOMAIN w.items :
            /\ w.items[i].product = productId
            /\ \A j \in 1..(i - 1) : w.items[j].product # productId
    ELSE 0

\* items.filter(item => item.id !== itemId)
RECURSIVE FilterOutId(_, _)
FilterOutId(items, itemId) ==
    IF items = <<>> THEN <<>>
    ELSE IF Head(items).id = itemId THEN FilterOutId(Tail(items), itemId)
    ELSE <<Head(items)>> \o FilterOutId(Tail(items), itemId)

\* Array.prototype.sort with the default comparator of sort(): added_at,
\* newest first; the sort is stable.
RECURSIVE InsertByDate(_, _)
InsertByDate(sorted, it) ==
    IF sorted = <<>> THEN <<it>>
    ELSE IF Head(sorted).added_at >= it.added_at
         THEN <<Head(sorted)>> \o InsertByDate(Tail(sorted), it)
         ELSE <<it>> \o sorted

RECURSIVE SortByDateAdded(_)
SortByDateAdded(items) ==
    IF items = <<>> THEN <<>>
    ELSE InsertByDate(SortByDateAdded(SubSeq(items, 1, Len(items) - 1)),
                      items[Len(items)])

\* The comparators of the sort operations, as the argument of a sort call:
\* 0 is sort() without a comparator, 1 and 2 are sortByName(true / false),
\* 3 and 4 sortByPrice(true / false), 5 and 6 sortByDateAdded(true / false).
SortDefault == 0
SortKinds == 0..6

\* product.title, as its rank in the order of localeCompare, and
\* product.price: the products of the catalogue are titled in the reverse
\* order of their ids, and products 1 and 2 have the same price.
ProductTitle(productId) == NumProducts + 1 - productId
ProductPrice(productId) == 1 + (productId \div 3)

\* compareFn(a, b) of the sort operation k.
Compare(k, a, b) ==
    CASE k = SortDefault -> b.added_at - a.added_at
      [] k = 1 -> ProductTitle(a.product) - ProductTitle(b.product)
      [] k = 2 -> 0 - (ProductTitle(a.product) - ProductTitle(b.product))
      [] k = 3 -> ProductPrice(a.product) - ProductPrice(b.product)
      [] k = 4 -> 0 - (ProductPrice(a.product) - ProductPrice(b.product))
      [] k = 5 -> a.added_at - b.added_at
      [] k = 6 -> 0 - (a.added_at - b.added_at)

\* Array.prototype.sort(compareFn): a stable sort.
RECURSIVE InsertBy(_, _, _)
InsertBy(sorted, it, k) ==
    IF sorted = <<>> THEN <<it>>
    ELSE IF Compare(k, Head(sorted), it) <= 0
         THEN <<Head(sorted)>> \o InsertBy(Tail(sorted), it, k)
         ELSE <<it>> \o sorted

RECURSIVE SortWith(_, _)
SortWith(items, k) ==
    IF items = <<>> THEN <<>>
    ELSE InsertBy(SortWith(SubSeq(items, 1, Len(items) - 1), k),
                  items[Len(items)], k)

\* wishlist.items.sort(...) in sort(compareFn).
SortItems(items, k) ==
    IF k = SortDefault THEN SortByDateAdded(items) ELSE SortWith(items, k)

\* A remote payload that is an object without an items array: the cast
\* `response.data[0].data as Wishlist` accepts it.
MalformedWishlist == [total_items |-> 0, updated_at |-> 0]

\* wishlist.items is an array: items.some / find / filter / sort / push do
\* not throw.
WellFormed(w) == "items" \in DOMAIN w

createEmptyWishlist(t) == [items |-> <<>>, total_items |-> 0, updated_at |-> t]

\* Metadata that keeps the old timestamp: what C16 must tell apart from the
\* code.
updateWishlistMetaStale(w, t) == [w EXCEPT !.total_items = Len(w.items)]

updateWishlistMeta(w, t) ==
    [w EXCEPT !.total_items = Len(w.items), !.updated_at = t]

\* A wishlist left by an earlier session: product 1 under entry id 1.
SeedWishlist ==
    [items |-> <<[id |-> 1, product |-> 1, added_at |-> 0]>>,
     total_items |-> 1, updated_at |-> 0]

\* What an earlier session of the same application can have left in the
\* Local Store and under the owner's remote key.
SeedLocal == {None, Some(SeedWishlist)}
SeedRemote == {None, Some(createEmptyWishlist(0)), Some(SeedWishlist)}

(* ------------------------------- state -------------------------------- *)

VARIABLES
    localStore,        \* localStorage[prefix:wishlist]: None or Some(wishlist)
    storageAvailable,  \* BrowserStorage.isStorageAvailable()
    quotaExceeded,     \* localStorage.setItem throws (the medium is full)
    merchant,          \* the merchant whose prefix the resources use (0: none)
    parked,            \* localStorage under the keys of the other merchants
    remote,            \* the record under wishlist_<userId>, kind 2
    userId,            \* WishlistResource.userId; 0 stands for undefined
    now,               \* the clock
    nextId,            \* the next fresh entry identifier
    calls,             \* the wishlist calls made so far, in invocation order
    ncalls,            \* how many calls were invoked
    mq,                \* the job queue: calls whose continuation is ready
    published,         \* the change events published so far, in order
    cartStore,         \* localStorage[prefix:cart]: None or Some(cart)
    cartNextId,        \* the next fresh cart or cart entry identifier
    cartCalls,         \* how many cart calls were made
    cartLast,          \* the last cart call: its operation and what it returned
    cartLog,           \* the cart calls of a scripted session, each as cartLast
    remoteCart,        \* the data of the cart record the server holds (/carts/:id)
    rcall,             \* the remote cart call in flight, or the last one made
    http,              \* the HttpClient request in flight, or the last one made
    events,            \* EventEmitter.events: per topic, the Set of handlers
    emitting,          \* the emit() in progress, if any
    eops,              \* how many EventEmitter calls were made
    subs               \* the unsubscribe functions on() has returned, in order

wvars == <<localStore, remote, userId, nextId, calls, ncalls, mq>>

cvars == <<cartStore, cartNextId, cartCalls, cartLast, cartLog>>

evars == <<events, emitting, eops, subs>>

svars == <<storageAvailable, quotaExceeded, merchant, parked, remoteCart, rcall,
           http>>

vars == <<svars, now, published, wvars, cvars, evars>>

CallIds == 1..MaxCalls

\* A call that was not invoked yet.
NoCall ==
    [op |-> "none", arg |-> 0, pc |-> "idle", stack |-> <<>>,
     net |-> "none", fetched |-> None, body |-> None,
     wl |-> None, item |-> None, itemId |-> 0, ret |-> None, retb |-> FALSE,
     res |-> None, resb |-> FALSE,
     \* history, for stating properties: the product was in the Local Store
     \* when the call was made; another call was in flight during this one;
     \* the outcome of its remote write; it returned without mutating.
     before |-> FALSE, overlapped |-> FALSE, post |-> "none", early |-> FALSE,
     \* the call rejected with a TypeError
     fault |-> FALSE,
     \* the merchant in use when the call was made
     merchant |-> 0]

(* --------------------------- BrowserStorage --------------------------- *)

\* BrowserStorage.get(): null when the medium is unavailable or the key unset.
StorageGet == IF storageAvailable THEN localStore ELSE None

\* A set() that has not written yet when the caller goes on: what C31 must
\* tell apart from the code.
StorageSetLate(value) == localStore

\* A set() that stores whatever the state of the medium: what C21 must tell
\* apart from the code.
StorageSetUnguarded(value) == Some(value)

\* The content of the key after BrowserStorage.set(value): unchanged when
\* the medium is unavailable or setItem throws (set returns false).
StorageSet(value) ==
    IF storageAvailable /\ ~quotaExceeded THEN Some(value) ELSE localStore

\* WishlistResource.getLocal()
getLocal == IF StorageGet = None THEN createEmptyWishlist(now) ELSE StorageGet[1]

\* hasProductLocal(productId)
hasProductLocal(productId) == HasProductIn(getLocal, productId)

(* ------------------------- the wishlist calls ------------------------- *)

InFlight(c) == c.pc \notin {"idle", "done"}

\* Every call made so far has resolved.
AllResolved == \A i \in 1..ncalls : calls[i].pc = "done"

\* The continuation of call p is the next job to run, at label.
Ready(p, label) ==
    /\ mq # <<>>
    /\ Head(mq) = p
    /\ calls[p].pc = label

\* A get() that merges the entries of the Local Store into the remote
\* wishlist it received: what C13 must tell apart from the code.
GetValueMerged(c, t) ==
    IF c.fetched # None
    THEN IF StorageGet = None THEN c.fetched[1]
         ELSE [c.fetched[1] EXCEPT !.items = @ \o StorageGet[1].items]
    ELSE IF StorageGet = None THEN createEmptyWishlist(t) ELSE StorageGet[1]

\* A get() that gives an empty wishlist when the remote gives nothing: what
\* C14 must tell apart from the code.
GetValueEmptyOnFailure(c, t) ==
    IF c.fetched # None THEN c.fetched[1] ELSE createEmptyWishlist(t)

\* The value get() computes at time t once getRemoteWishlist() has returned
\* c.fetched: the remote wishlist when there is one, else the Local Store's,
\* else an empty wishlist.
GetValue(c, t) ==
    IF c.fetched # None THEN c.fetched[1]
    ELSE IF StorageGet = None THEN createEmptyWishlist(t) ELSE StorageGet[1]

\* A get() that returns the remote wishlist without storing it: what C8's
\* Local-only accessor must tell apart from the code.
GetStoreKeep(c) == localStore

\* The Local Store after that: get() stores the remote wishlist it received.
GetStore(c) == IF c.fetched # None THEN StorageSet(c.fetched[1]) ELSE localStore

\* getRemoteWishlist(): without a user id it returns null at once and the
\* awaiting get() resumes one job later; with one, generic.get is sent and
\* the call leaves the job queue until the response arrives.
IssueFetch(c) ==
    [c EXCEPT !.pc = "get.resume",
              !.net = IF userId # 0 THEN "fetch" ELSE "none",
              !.fetched = None]

\* A saveToRemote() without its `if (!this.userId) return`: what C26 must
\* tell apart from the code.
IssuePostAlways(c, w, label) ==
    [c EXCEPT !.pc = label, !.net = "post", !.body = Some(w)]

\* saveToRemote(wishlist): without a user id it returns at once; with one,
\* generic.post is sent with the wishlist serialized at that moment.
IssuePost(c, w, label) ==
    [c EXCEPT !.pc = label,
              !.net = IF userId # 0 THEN "post" ELSE "none",
              !.body = IF userId # 0 THEN Some(w) ELSE None]

\* A call whose promise has settled keeps its result and the history fields
\* only.
Settled(c, w, b) ==
    [NoCall EXCEPT !.op = c.op, !.arg = c.arg, !.pc = "done",
                   !.res = w, !.resb = b, !.before = c.before,
                   !.overlapped = c.overlapped, !.post = c.post,
                   !.early = c.early, !.merchant = c.merchant]

\* A method of the call throws (a TypeError on wishlist.items): no caller
\* catches it, the promise of the call rejects.
Throw(c) == [Settled(c, None, FALSE) EXCEPT !.fault = TRUE]

\* An async function returns (w, b): the promise of the call settles, or
\* its caller, suspended in an await, resumes one job later.
Return(c, w, b) ==
    IF c.stack = <<>>
    THEN Settled(c, w, b)
    ELSE [c EXCEPT !.pc = Head(c.stack), !.stack = Tail(c.stack),
                   !.ret = w, !.retb = b]

\* A job queue that loses the continuation of a call that goes on: what
\* C39 must tell apart from the code.
RequeueLost(p, c2) == Tail(mq)

\* The job queue after the job of call p, which becomes c2, has run.
Requeue(p, c2) ==
    IF c2.pc = "done" \/ c2.net # "none" THEN Tail(mq) ELSE Append(Tail(mq), p)

\* An emit that reaches the subscribers twice: what C2's count must tell
\* apart from the code.
PublishTwice(topic, p, ref) ==
    LET e == [topic |-> topic, call |-> p, ref |-> ref]
    IN Append(Append(published, e), e)

\* eventEmitter.emit(topic, {item | itemId, wishlist}), by call p: the
\* wishlist of the payload is the object the call then returns.
Publish(topic, p, ref) ==
    Append(published, [topic |-> topic, call |-> p, ref |-> ref])

\* The first frames of each operation: what runs synchronously when the
\* application calls it, up to its first await.
FirstStack(op) ==
    CASE op = "get"           -> <<>>
      [] op = "hasProduct"    -> <<"has.ret">>
      [] op = "addItem"       -> <<"add.k1">>
      [] op = "removeItem"    -> <<"rmi.k1">>
      [] op = "removeProduct" -> <<"rmp.k1">>
      [] op = "toggleProduct" -> <<"has.ret", "tog.k1">>
      [] op = "sort"          -> <<"srt.k1">>
      [] op = "sortBy"        -> <<"srt.k1", "rmp.then">>

\* The operations that start by awaiting get(), with their arguments: a
\* product, or an entry identifier (0 is the identifier of no entry).
FetchFirstOps ==
    {<<"get", 0>>, <<"sort", 0>>}
    \cup {<<o, pr>> : o \in {"hasProduct", "addItem", "removeProduct",
                             "toggleProduct"}, pr \in Products}
    \cup {<<"removeItem", id>> : id \in 0..(nextId - 1)}

\* The history when call q is made: the calls in flight are overlapped, and
\* the value an earlier call returned is no longer looked at.
MarkOverlap(q) ==
    [i \in CallIds |->
        IF i = q THEN calls[i]
        ELSE [calls[i] EXCEPT !.overlapped = @ \/ InFlight(calls[i]),
                              !.res = None]]

\* The application calls get, hasProduct, addItem, removeItem, removeProduct,
\* toggleProduct or sort.
Invoke(o, a) ==
    /\ ncalls < MaxCalls
    /\ LET p == ncalls + 1
           c0 == [NoCall EXCEPT !.op = o, !.arg = a, !.stack = FirstStack(o),
                                !.itemId = IF o = "removeItem" THEN a ELSE 0,
                                !.before = WellFormed(getLocal) /\ hasProductLocal(a),
                                !.overlapped = ~AllResolved,
                                !.merchant = merchant]
           c1 == IssueFetch(c0)
       IN /\ calls' = [MarkOverlap(p) EXCEPT ![p] = c1]
          /\ mq' = IF c1.net = "none" THEN Append(mq, p) ELSE mq
          /\ ncalls' = p
    /\ UNCHANGED <<cvars, evars, localStore, svars, remote, userId, now, nextId, published>>

\* clear(), called at time t: the empty wishlist is stored before the first
\* await.
InvokeClear(t) ==
    /\ ncalls < MaxCalls
    /\ now' = t
    /\ LET p == ncalls + 1
           w == createEmptyWishlist(t)
           c0 == [NoCall EXCEPT !.op = "clear", !.wl = Some(w),
                                !.overlapped = ~AllResolved,
                                !.merchant = merchant]
           c1 == IssuePost(c0, w, "clr.k1")
       IN /\ localStore' = StorageSet(w)
          /\ calls' = [MarkOverlap(p) EXCEPT ![p] = c1]
          /\ mq' = IF c1.net = "none" THEN Append(mq, p) ELSE mq
          /\ ncalls' = p
    /\ UNCHANGED <<cvars, evars, svars, remote, userId, nextId, published>>

\* The response to generic.get arrives: a record (when the server holds one
\* and the request succeeds) or nothing (no record, an error state, a throw).
FetchReturn(p, ok) ==
    /\ mq = <<>>
    /\ calls[p].net = "fetch"
    /\ calls' = [calls EXCEPT ![p].net = "none",
                              ![p].fetched = IF ok THEN remote ELSE None]
    /\ mq' = <<p>>
    /\ UNCHANGED <<cvars, evars, localStore, svars, remote, userId, now, nextId,
                   ncalls, published>>

\* A saveToRemote() without its try/catch: the error of generic.post
\* rejects the call that awaits it. C3 must tell it apart from the code.
saveToRemoteRethrow(c, ok) ==
    IF ok
    THEN [c EXCEPT !.net = "none", !.body = None, !.post = "ok"]
    ELSE [Settled(c, None, FALSE) EXCEPT !.post = "failed"]

\* saveToRemote() when generic.post has returned or thrown: the error is
\* caught and logged, and the caller resumes either way.
saveToRemoteReturn(c, ok) ==
    [c EXCEPT !.net = "none", !.body = None,
              !.post = IF ok THEN "ok" ELSE "failed"]

\* The response to generic.post arrives: the server stored the wishlist, or
\* the request failed and saveToRemote swallowed the error.
PostReturn(p, ok) ==
    /\ mq = <<>>
    /\ calls[p].net = "post"
    /\ remote' = IF ok THEN calls[p].body ELSE remote
    /\ LET c2 == saveToRemoteReturn(calls[p], ok)
       IN /\ calls' = [calls EXCEPT ![p] = c2]
          /\ mq' = IF c2.pc = "done" THEN mq ELSE <<p>>
    /\ UNCHANGED <<cvars, evars, localStore, svars, userId, now, nextId, ncalls, published>>

\* get() after `await this.getRemoteWishlist()`, at time t (the time is read
\* only to make an empty wishlist).
GetResume(p, t) ==
    /\ Ready(p, "get.resume")
    /\ LET c == calls[p]
           fresh == c.fetched = None /\ StorageGet = None
           c2 == Return([c EXCEPT !.fetched = None], Some(GetValue(c, t)), FALSE)
       IN /\ (~fresh => t = now)
          /\ now' = t
          /\ localStore' = GetStore(c)
          /\ calls' = [calls EXCEPT ![p] = c2]
          /\ mq' = Requeue(p, c2)
    /\ UNCHANGED <<cvars, evars, svars, remote, userId, nextId, ncalls, published>>

\* hasProduct() after `await this.get()`.
HasRet(p) ==
    /\ Ready(p, "has.ret")
    /\ LET c == calls[p]
           c2 == IF ~WellFormed(c.ret[1]) THEN Throw(c)
                 ELSE Return([c EXCEPT !.ret = None], None,
                             HasProductIn(c.ret[1], c.arg))
       IN /\ calls' = [calls EXCEPT ![p] = c2]
          /\ mq' = Requeue(p, c2)
    /\ UNCHANGED <<cvars, evars, localStore, svars, remote, userId, now, nextId,
                   ncalls, published>>

\* addItem() after `await this.get()`: it calls hasProduct(product.id).
AddK1(p) ==
    /\ Ready(p, "add.k1")
    /\ LET c == calls[p]
           c2 == IssueFetch([c EXCEPT !.wl = c.ret, !.ret = None,
                                      !.stack = <<"has.ret", "add.k2">> \o @])
       IN /\ calls' = [calls EXCEPT ![p] = c2]
          /\ mq' = Requeue(p, c2)
    /\ UNCHANGED <<cvars, evars, localStore, svars, remote, userId, now, nextId,
                   ncalls, published>>

\* addItem() after `await this.hasProduct(product.id)`, at time t.
AddK2(p, t) ==
    /\ Ready(p, "add.k2")
    /\ LET c == calls[p]
           newItem == [id |-> nextId, product |-> c.arg, added_at |-> t]
           w == updateWishlistMeta(
                    [c.wl[1] EXCEPT !.items = Append(@, newItem)], t)
           \* wishlist.items.push throws after generateItemId() and new Date()
           throws == ~c.retb /\ ~WellFormed(c.wl[1])
           c2 == IF c.retb
                 THEN Return([c EXCEPT !.early = TRUE], c.wl, FALSE)
                 ELSE IF throws THEN Throw(c)
                 ELSE IssuePost([c EXCEPT !.wl = Some(w), !.item = Some(newItem)],
                                w, "add.k3")
       IN /\ ((c.retb \/ throws) => t = now)
          /\ now' = t
          /\ localStore' = IF c.retb \/ throws THEN localStore ELSE StorageSet(w)
          /\ nextId' = IF c.retb \/ throws THEN nextId ELSE nextId + 1
          /\ calls' = [calls EXCEPT ![p] = c2]
          /\ mq' = Requeue(p, c2)
    /\ UNCHANGED <<cvars, evars, svars, remote, userId, ncalls, published>>

\* addItem() after `await this.saveToRemote(updatedWishlist)`.
AddK3(p) ==
    /\ Ready(p, "add.k3")
    /\ LET c == calls[p]
           c2 == Return(c, c.wl, FALSE)
       IN /\ published' = Publish("wishlist:item:added", p, c.item[1].id)
          /\ calls' = [calls EXCEPT ![p] = c2]
          /\ mq' = Requeue(p, c2)
    /\ UNCHANGED <<cvars, evars, localStore, svars, remote, userId, now, nextId, ncalls>>

\* removeItem(itemId) after `await this.get()`, at time t.
RmiK1(p, t) ==
    /\ Ready(p, "rmi.k1")
    /\ now' = t
    /\ LET c == calls[p]
           w == updateWishlistMeta(
                    [c.ret[1] EXCEPT !.items = FilterOutId(@, c.itemId)], t)
           throws == ~WellFormed(c.ret[1])
           c2 == IF throws THEN Throw(c)
                 ELSE IssuePost([c EXCEPT !.wl = Some(w), !.ret = None], w, "rmi.k2")
       IN /\ (throws => t = now)
          /\ localStore' = IF throws THEN localStore ELSE StorageSet(w)
          /\ calls' = [calls EXCEPT ![p] = c2]
          /\ mq' = Requeue(p, c2)
    /\ UNCHANGED <<cvars, evars, svars, remote, userId, nextId, ncalls, published>>

\* removeItem() after `await this.saveToRemote(updatedWishlist)`.
RmiK2(p) ==
    /\ Ready(p, "rmi.k2")
    /\ LET c == calls[p]
           c2 == Return(c, c.wl, FALSE)
       IN /\ published' = Publish("wishlist:item:removed", p, c.itemId)
          /\ calls' = [calls EXCEPT ![p] = c2]
          /\ mq' = Requeue(p, c2)
    /\ UNCHANGED <<cvars, evars, localStore, svars, remote, userId, now, nextId, ncalls>>

\* removeProduct(productId) after `await this.get()`: it returns the promise
\* of removeItem(itemToRemove.id), or the wishlist it read.
RmpK1(p) ==
    /\ Ready(p, "rmp.k1")
    /\ LET c == calls[p]
           i == FindProduct(c.ret[1], c.arg)
           c2 == IF ~WellFormed(c.ret[1]) THEN Throw(c)
                 ELSE IF i > 0
                 THEN IssueFetch([c EXCEPT !.itemId = c.ret[1].items[i].id,
                                           !.ret = None,
                                           !.stack = <<"rmi.k1", "rmp.then">> \o @])
                 ELSE Return([c EXCEPT !.early = TRUE], c.ret, FALSE)
       IN /\ calls' = [calls EXCEPT ![p] = c2]
          /\ mq' = Requeue(p, c2)
    /\ UNCHANGED <<cvars, evars, localStore, svars, remote, userId, now, nextId,
                   ncalls, published>>

\* toggleProduct() after `await this.hasProduct(product.id)`: it calls
\* removeProduct(product.id) or addItem(product).
TogK1(p) ==
    /\ Ready(p, "tog.k1")
    /\ LET c == calls[p]
           c2 == IssueFetch([c EXCEPT !.stack =
                    IF c.retb THEN <<"rmp.k1", "tog.removed">> \o @
                              ELSE <<"add.k1", "tog.added">> \o @])
       IN /\ calls' = [calls EXCEPT ![p] = c2]
          /\ mq' = Requeue(p, c2)
    /\ UNCHANGED <<cvars, evars, localStore, svars, remote, userId, now, nextId,
                   ncalls, published>>

\* toggleProduct() after `await this.removeProduct(...)` or
\* `await this.addItem(...)`: it returns {wishlist, added}.
TogK2(p) ==
    /\ mq # <<>> /\ Head(mq) = p
    /\ calls[p].pc \in {"tog.removed", "tog.added"}
    /\ LET c == calls[p]
           c2 == Return(c, c.ret, c.pc = "tog.added")
       IN /\ calls' = [calls EXCEPT ![p] = c2]
          /\ mq' = Requeue(p, c2)
    /\ UNCHANGED <<cvars, evars, localStore, svars, remote, userId, now, nextId,
                   ncalls, published>>

\* clear() after `await this.saveToRemote(emptyWishlist)`.
ClrK1(p) ==
    /\ Ready(p, "clr.k1")
    /\ LET c == calls[p]
           c2 == Return(c, c.wl, FALSE)
       IN /\ published' = Publish("wishlist:cleared", p, 0)
          /\ calls' = [calls EXCEPT ![p] = c2]
          /\ mq' = Requeue(p, c2)
    /\ UNCHANGED <<cvars, evars, localStore, svars, remote, userId, now, nextId, ncalls>>

\* sort(compareFn) after `await this.get()`, at time t; sortByName,
\* sortByPrice and sortByDateAdded return the promise of sort(compareFn).
SrtK1(p, t) ==
    /\ Ready(p, "srt.k1")
    /\ now' = t
    /\ LET c == calls[p]
           w == updateWishlistMeta(
                    [c.ret[1] EXCEPT !.items = SortItems(@, c.arg)], t)
           throws == ~WellFormed(c.ret[1])
           c2 == IF throws THEN Throw(c)
                 ELSE IssuePost([c EXCEPT !.wl = Some(w), !.ret = None], w, "srt.k2")
       IN /\ (throws => t = now)
          /\ localStore' = IF throws THEN localStore ELSE StorageSet(w)
          /\ calls' = [calls EXCEPT ![p] = c2]
          /\ mq' = Requeue(p, c2)
    /\ UNCHANGED <<cvars, evars, svars, remote, userId, nextId, ncalls, published>>

\* sort() after `await this.saveToRemote(updatedWishlist)`.
SrtK2(p) ==
    /\ Ready(p, "srt.k2")
    /\ LET c == calls[p]
           c2 == Return(c, c.wl, FALSE)
       IN /\ calls' = [calls EXCEPT ![p] = c2]
          /\ mq' = Requeue(p, c2)
    /\ UNCHANGED <<cvars, evars, localStore, svars, remote, userId, now, nextId,
                   ncalls, published>>

\* removeProduct() returned the promise of removeItem(): once that one has
\* settled, a first job takes its `then` ...
RmpThen(p) ==
    /\ Ready(p, "rmp.then")
    /\ calls' = [calls EXCEPT ![p].pc = "rmp.settle"]
    /\ mq' = Append(Tail(mq), p)
    /\ UNCHANGED <<cvars, evars, localStore, svars, remote, userId, now, nextId,
                   ncalls, published>>

\* ... and a second job settles the promise of removeProduct() with its value.
RmpSettle(p) ==
    /\ Ready(p, "rmp.settle")
    /\ LET c == calls[p]
           c2 == Return(c, c.ret, FALSE)
       IN /\ calls' = [calls EXCEPT ![p] = c2]
          /\ mq' = Requeue(p, c2)
    /\ UNCHANGED <<cvars, evars, localStore, svars, remote, userId, now, nextId,
                   ncalls, published>>

\* The application calls syncFromRemote(): it awaits getRemoteWishlist().
InvokeSyncFromRemote ==
    /\ ncalls < MaxCalls
    /\ LET p == ncalls + 1
           c0 == [NoCall EXCEPT !.op = "syncFromRemote",
                                !.overlapped = ~AllResolved,
                                !.merchant = merchant]
           c1 == [IssueFetch(c0) EXCEPT !.pc = "sfr.k1"]
       IN /\ calls' = [MarkOverlap(p) EXCEPT ![p] = c1]
          /\ mq' = IF c1.net = "none" THEN Append(mq, p) ELSE mq
          /\ ncalls' = p
    /\ UNCHANGED <<cvars, evars, localStore, svars, remote, userId, now, nextId, published>>

\* syncFromRemote() after `await this.getRemoteWishlist()`, at time t: the
\* remote wishlist is stored and returned when there is one, else
\* getLocal() is returned.
SfrK1(p, t) ==
    /\ Ready(p, "sfr.k1")
    /\ LET c == calls[p]
           fresh == c.fetched = None /\ StorageGet = None
           w == IF c.fetched # None THEN c.fetched[1]
                ELSE IF StorageGet = None THEN createEmptyWishlist(t)
                ELSE StorageGet[1]
           c2 == Return([c EXCEPT !.fetched = None], Some(w), FALSE)
       IN /\ (~fresh => t = now)
          /\ now' = t
          /\ localStore' = IF c.fetched # None THEN StorageSet(c.fetched[1])
                           ELSE localStore
          /\ calls' = [calls EXCEPT ![p] = c2]
          /\ mq' = Requeue(p, c2)
    /\ UNCHANGED <<cvars, evars, svars, remote, userId, nextId, ncalls, published>>

\* The application calls syncToRemote() at time t: getLocal() is read (the
\* time only to make an empty wishlist) and saveToRemote() awaited.
InvokeSyncToRemote(t) ==
    /\ ncalls < MaxCalls
    /\ (StorageGet # None => t = now)
    /\ now' = t
    /\ LET p == ncalls + 1
           w == IF StorageGet = None THEN createEmptyWishlist(t) ELSE StorageGet[1]
           c0 == [NoCall EXCEPT !.op = "syncToRemote",
                                !.overlapped = ~AllResolved,
                                !.merchant = merchant]
           c1 == IssuePost(c0, w, "sto.k1")
       IN /\ calls' = [MarkOverlap(p) EXCEPT ![p] = c1]
          /\ mq' = IF c1.net = "none" THEN Append(mq, p) ELSE mq
          /\ ncalls' = p
    /\ UNCHANGED <<cvars, evars, localStore, svars, remote, userId, nextId, published>>

\* syncToRemote() after `await this.saveToRemote(localWishlist)`.
StoK1(p) ==
    /\ Ready(p, "sto.k1")
    /\ LET c == calls[p]
           c2 == Return(c, None, FALSE)
       IN /\ calls' = [calls EXCEPT ![p] = c2]
          /\ mq' = Requeue(p, c2)
    /\ UNCHANGED <<cvars, evars, localStore, svars, remote, userId, now, nextId,
                   ncalls, published>>

\* The Local accessors, with their arguments (0 when they take none).
LocalOps ==
    {"getLocal", "hasProductLocal", "getItemLocal", "isEmptyLocal",
     "getItemCountLocal", "getProductsLocal"}

LocalCalls ==
    {<<o, 0>> : o \in {"getLocal", "isEmptyLocal", "getItemCountLocal",
                       "getProductsLocal"}}
    \cup {<<o, pr>> : o \in {"hasProductLocal", "getItemLocal"}, pr \in Products}

\* What a Local accessor computes from the wishlist w that getLocal() gave
\* it: a value (None for undefined) and a boolean.
LocalResult(o, a, w) ==
    CASE o = "getLocal"          -> <<Some(w), FALSE>>
      [] o = "hasProductLocal"   -> <<None, HasProductIn(w, a)>>
      [] o = "getItemLocal"      ->
             <<IF FindProduct(w, a) > 0 THEN Some(w.items[FindProduct(w, a)])
               ELSE None, FALSE>>
      [] o = "isEmptyLocal"      -> <<None, Len(w.items) = 0>>
      [] o = "getItemCountLocal" -> <<Some(Len(w.items)), FALSE>>
      [] o = "getProductsLocal"  ->
             <<Some([i \in DOMAIN w.items |-> w.items[i].product]), FALSE>>

\* A Local accessor that is the asynchronous one: it awaits
\* getRemoteWishlist(). C27 must tell it apart from the code.
LocalReturnAwaiting(c, w, b) == IssueFetch(c)

\* A Local accessor returns to its caller: it is an ordinary function, the
\* call is over when it returns.
LocalReturn(c, w, b) == Settled(c, w, b)

\* The application calls a Local accessor at time t (the time is read only
\* to make an empty wishlist): one synchronous step, whatever else is in
\* flight.
CallLocal(o, a, t) ==
    /\ ncalls < MaxCalls
    /\ (StorageGet # None => t = now)
    /\ now' = t
    /\ LET p == ncalls + 1
           w == IF StorageGet = None THEN createEmptyWishlist(t) ELSE StorageGet[1]
           c0 == [NoCall EXCEPT !.op = o, !.arg = a, !.overlapped = ~AllResolved,
                                !.merchant = merchant]
           r == LocalResult(o, a, w)
       IN /\ calls' = [MarkOverlap(p) EXCEPT ![p] = LocalReturn(c0, r[1], r[2])]
          /\ ncalls' = p
    /\ UNCHANGED <<cvars, evars, localStore, svars, remote, userId, nextId, mq,
                   published>>

(* ------------------------------ the cart ------------------------------ *)

\* Quantities the application passes range over -1..MaxQty.
MaxQty == 2

\* Unit prices of the product snapshots the application passes: 1..MaxPrice.
MaxPrice == 2

\* Total number of cart calls the application makes in one behaviour.
MaxCartCalls == 2

Quantities == -1..MaxQty

\* The product snapshots the application can pass: the catalog price of a
\* product may have changed between two calls.
ProductSnapshots == [id : Products, price : 1..MaxPrice]

\* items.reduce((total, item) => total + item.price * item.quantity, 0)
RECURSIVE SumSubtotal(_)
SumSubtotal(items) ==
    IF items = <<>> THEN 0
    ELSE SumSubtotal(SubSeq(items, 1, Len(items) - 1))
         + items[Len(items)].price * items[Len(items)].quantity

\* items.reduce((total, item) => total + item.quantity, 0)
RECURSIVE SumQuantity(_)
SumQuantity(items) ==
    IF items = <<>> THEN 0
    ELSE SumQuantity(SubSeq(items, 1, Len(items) - 1)) + items[Len(items)].quantity

createEmptyCart(id, t) ==
    [id |-> id, items |-> <<>>, subtotal |-> 0, total_items |-> 0,
     created_at |-> t, updated_at |-> t]

\* Totals that count entries instead of units: what C7 must tell apart
\* from the code.
updateCartTotalsEntries(cart, t) ==
    [cart EXCEPT !.subtotal = SumSubtotal(cart.items),
                 !.total_items = Len(cart.items),
                 !.updated_at = t]

\* updateCartTotals(cart)
updateCartTotals(cart, t) ==
    [cart EXCEPT !.subtotal = SumSubtotal(cart.items),
                 !.total_items = SumQuantity(cart.items),
                 !.updated_at = t]

\* A cart left by an earlier session: two units of product 1 at price 1,
\* under entry id 1.
SeedCart ==
    [id |-> 1,
     items |-> <<[id |-> 1, product |-> [id |-> 1, price |-> 1],
                  quantity |-> 2, price |-> 1]>>,
     subtotal |-> 2, total_items |-> 2, created_at |-> 0, updated_at |-> 0]

SeedCarts == {None, Some(SeedCart)}

\* found: the entry or product the call addresses was in the cart it read.
NoCartCall ==
    [op |-> "none", arg |-> 0, quantity |-> 0, res |-> None, emitted |-> <<>>,
     found |-> FALSE]

\* BrowserStorage<Cart>.get() and the content of the key after set(value).
CartStorageGet == IF storageAvailable THEN cartStore ELSE None
CartStorageSet(value) ==
    IF storageAvailable /\ ~quotaExceeded THEN Some(value) ELSE cartStore

\* CartResource.get() at time t.
CartGet(t) ==
    IF CartStorageGet = None THEN createEmptyCart(cartNextId, t)
    ELSE CartStorageGet[1]

\* items.findIndex(item => item.product.id === productId), 0 for -1.
CartFindProduct(cart, productId) ==
    IF \E i \in DOMAIN cart.items : cart.items[i].product.id = productId
    THEN CHOOSE i \in DOMAIN cart.items :
            /\ cart.items[i].product.id = productId
            /\ \A j \in 1..(i - 1) : cart.items[j].product.id # productId
    ELSE 0

\* items.findIndex(item => item.id === itemId), 0 for -1.
CartFindItem(cart, itemId) ==
    IF \E i \in DOMAIN cart.items : cart.items[i].id = itemId
    THEN CHOOSE i \in DOMAIN cart.items :
            /\ cart.items[i].id = itemId
            /\ \A j \in 1..(i - 1) : cart.items[j].id # itemId
    ELSE 0

CartEvent(topic, ref, cart) ==
    [topic |-> topic, ref |-> ref, payload |-> cart]

\* What a cart call produces: the cart it returns, what it leaves in the
\* Local Store, the events it publishes, and whether it used the fresh
\* identifier.
CartOutcome(cart, store, emitted, fresh) ==
    [res |-> cart, store |-> store, emitted |-> emitted, fresh |-> fresh]

\* addItem(product, quantity) at time t.
cartAddItem(product, quantity, t) ==
    LET cart == CartGet(t)
        i == CartFindProduct(cart, product.id)
        newItem == [id |-> cartNextId, product |-> product,
                    quantity |-> quantity, price |-> product.price]
        items == IF i > 0
                 THEN [cart.items EXCEPT ![i].quantity = @ + quantity,
                                         ![i].price = product.price]
                 ELSE Append(cart.items, newItem)
        updatedCart == updateCartTotals([cart EXCEPT !.items = items], t)
        item == IF i > 0 THEN items[i] ELSE items[Len(items)]
    IN CartOutcome(updatedCart, CartStorageSet(updatedCart),
                   <<CartEvent("cart:item:added", item.id, updatedCart)>>,
                   i = 0 \/ CartStorageGet = None)

\* removeItem(itemId) at time t.
cartRemoveItem(itemId, t) ==
    LET cart == CartGet(t)
        updatedCart == updateCartTotals(
            [cart EXCEPT !.items = FilterOutId(@, itemId)], t)
    IN IF CartFindItem(cart, itemId) > 0
       THEN CartOutcome(updatedCart, CartStorageSet(updatedCart),
                        <<CartEvent("cart:item:removed", itemId, updatedCart)>>,
                        FALSE)
       ELSE CartOutcome(cart, cartStore, <<>>, CartStorageGet = None)

\* removeProduct(productId) at time t.
cartRemoveProduct(productId, t) ==
    LET cart == CartGet(t)
        i == CartFindProduct(cart, productId)
    IN IF i > 0 THEN cartRemoveItem(cart.items[i].id, t)
       ELSE CartOutcome(cart, cartStore, <<>>, CartStorageGet = None)

\* An updateItemQuantity() without its `quantity <= 0` branch: the entry
\* keeps its place with the quantity given. C25 must tell it apart from the
\* code.
cartUpdateItemQuantityNoRemove(itemId, quantity, t) ==
    LET cart == CartGet(t)
        i == CartFindItem(cart, itemId)
        updatedCart == updateCartTotals(
            [cart EXCEPT !.items[i].quantity = quantity], t)
    IN IF i > 0
       THEN CartOutcome(updatedCart, CartStorageSet(updatedCart),
                        <<CartEvent("cart:item:updated", itemId, updatedCart)>>,
                        FALSE)
       ELSE CartOutcome(cart, cartStore, <<>>, CartStorageGet = None)

\* updateItemQuantity(itemId, quantity) at time t.
cartUpdateItemQuantity(itemId, quantity, t) ==
    LET cart == CartGet(t)
        i == CartFindItem(cart, itemId)
        updatedCart == updateCartTotals(
            [cart EXCEPT !.items[i].quantity = quantity], t)
    IN IF quantity <= 0 THEN cartRemoveItem(itemId, t)
       ELSE IF i > 0
       THEN CartOutcome(updatedCart, CartStorageSet(updatedCart),
                        <<CartEvent("cart:item:updated", itemId, updatedCart)>>,
                        FALSE)
       ELSE CartOutcome(cart, cartStore, <<>>, CartStorageGet = None)

\* A clear() that publishes nothing: what C30 must tell apart from the code.
cartClearSilent(t) ==
    LET emptyCart == createEmptyCart(cartNextId, t)
    IN CartOutcome(emptyCart, CartStorageSet(emptyCart), <<>>, TRUE)

\* clear() at time t.
cartClear(t) ==
    LET emptyCart == createEmptyCart(cartNextId, t)
    IN CartOutcome(emptyCart, CartStorageSet(emptyCart),
                   <<CartEvent("cart:cleared", 0, emptyCart)>>, TRUE)

\* A cart call returns: the Local Store and the record of the call (with
\* the events it published) are updated. Cart calls are synchronous: each
\* is one step.
CartReturn(op, arg, quantity, t, out) ==
    /\ now' = t
    /\ cartStore' = out.store
    /\ cartNextId' = IF out.fresh THEN cartNextId + 1 ELSE cartNextId
    /\ cartCalls' = cartCalls + 1
    /\ cartLast' = [op |-> op, arg |-> arg, quantity |-> quantity,
                    res |-> Some(out.res), emitted |-> out.emitted,
                    found |-> IF op \in {"addItem", "removeProduct"}
                              THEN CartFindProduct(CartGet(t), arg) > 0
                              ELSE CartFindItem(CartGet(t), arg) > 0]
    /\ UNCHANGED <<svars, published, wvars, evars>>

CartCall(op, arg, quantity, t, out) ==
    /\ cartCalls < MaxCartCalls
    /\ CartReturn(op, arg, quantity, t, out)
    /\ UNCHANGED cartLog

CartAddItem(product, quantity, t) ==
    CartCall("addItem", product.id, quantity, t, cartAddItem(product, quantity, t))

CartRemoveItem(itemId, t) ==
    CartCall("removeItem", itemId, 0, t, cartRemoveItem(itemId, t))

CartRemoveProduct(productId, t) ==
    CartCall("removeProduct", productId, 0, t, cartRemoveProduct(productId, t))

CartUpdateItemQuantity(itemId, quantity, t) ==
    CartCall("updateItemQuantity", itemId, quantity, t,
             cartUpdateItemQuantity(itemId, quantity, t))

CartClear(t) ==
    CartCall("clear", 0, 0, t, cartClear(t))

(* --------------------------- the EventEmitter ------------------------- *)

\* Number of distinct handler functions the application registers.
NumHandlers == 2

\* Total number of on / off / removeAllListeners / emit calls in a behaviour.
MaxEmitterOps == 4

Handlers == 1..NumHandlers

Topics == {"wishlist:item:added", "cart:cleared"}

\* A Set<EventHandler> is the list of its entries in insertion order; an
\* entry that was deleted stays in the list as 0 (Set.prototype.forEach
\* walks the list by index, skipping deleted entries and reaching entries
\* appended while it runs). The Map has no entry for a topic whose list is
\* <<>>.
Live(set) == {set[i] : i \in DOMAIN set} \ {0}

\* Set.prototype.add: a value already in the Set keeps its place.
SetAdd(set, h) == IF h \in Live(set) THEN set ELSE Append(set, h)

\* Set.prototype.delete
SetDelete(set, h) == [i \in DOMAIN set |-> IF set[i] = h THEN 0 ELSE set[i]]

\* The handlers of a Set, in insertion order.
InOrder(set) == SelectSeq(set, LAMBDA h : h # 0)

\* No emit() is running. History, for stating properties: the handlers the
\* emit invoked (invoked), those that were registered when it started
\* (atStart, and in registration order: order), the invocations whose fault
\* was caught (caught: indices of invoked), and whether a fault reached the
\* caller of emit() (fault). once is the onceHandler that is running and
\* has still to unregister itself, 0 when there is none.
NotEmitting ==
    [active |-> FALSE, topic |-> "", pos |-> 0, detached |-> FALSE,
     own |-> <<>>, invoked |-> <<>>, atStart |-> {}, order |-> <<>>,
     caught |-> {}, fault |-> FALSE, once |-> 0]

\* The Set the running emit() iterates: the one it took from the Map, which
\* is the topic's Set unless the Map entry was deleted since.
Iterated == IF emitting.detached THEN emitting.own ELSE events[emitting.topic]

\* The running emit() loses the topic's Map entry: it keeps iterating the
\* Set object it holds, which has the entries set.
Detach(e, set) ==
    IF emitting.active /\ emitting.topic = e /\ ~emitting.detached
    THEN [emitting EXCEPT !.detached = TRUE, !.own = set]
    ELSE emitting

\* Who can call on, off and removeAllListeners: the application while no
\* emit() runs, or a handler the running emit() has invoked.
CanCall == emitting.active => emitting.invoked # <<>>

\* on(event, handler), by the application or by a running handler: it
\* returns the function () => this.off(event, handler), kept in subs with
\* the number of times it was called.
On(e, h) ==
    /\ eops < MaxEmitterOps
    /\ CanCall
    /\ eops' = eops + 1
    /\ events' = [events EXCEPT ![e] = SetAdd(@, h)]
    /\ subs' = Append(subs, [topic |-> e, handler |-> h, calls |-> 0])
    /\ UNCHANGED emitting
    /\ UNCHANGED <<svars, now, published, wvars, cvars>>

\* An off() that deletes the handler function from the Set of every topic:
\* what C24 must tell apart from the code.
OffAllTopics(e, h) ==
    /\ eops < MaxEmitterOps
    /\ CanCall
    /\ eops' = eops + 1
    /\ events' = [x \in Topics |->
                     IF Live(SetDelete(events[x], h)) = {} THEN <<>>
                     ELSE SetDelete(events[x], h)]
    /\ emitting' = IF events[e] # <<>> /\ Live(SetDelete(events[e], h)) = {}
                   THEN Detach(e, SetDelete(events[e], h)) ELSE emitting
    /\ UNCHANGED <<subs, svars, now, published, wvars, cvars>>

\* off(event, handler): the Map entry is deleted with the last handler.
Off(e, h) ==
    /\ eops < MaxEmitterOps
    /\ CanCall
    /\ eops' = eops + 1
    /\ LET set == SetDelete(events[e], h)
       IN IF events[e] # <<>> /\ Live(set) = {}
          THEN /\ events' = [events EXCEPT ![e] = <<>>]
               /\ emitting' = Detach(e, set)
          ELSE /\ events' = [events EXCEPT ![e] = set]
               /\ UNCHANGED emitting
    /\ UNCHANGED <<subs, svars, now, published, wvars, cvars>>

\* The k-th function returned by on() is called: off(event, handler) with
\* the event and handler of that on().
Unsubscribe(k) ==
    /\ eops < MaxEmitterOps
    /\ CanCall
    /\ k \in DOMAIN subs
    /\ eops' = eops + 1
    /\ subs' = [subs EXCEPT ![k].calls = @ + 1]
    /\ LET e == subs[k].topic
           set == SetDelete(events[e], subs[k].handler)
       IN IF events[e] # <<>> /\ Live(set) = {}
          THEN /\ events' = [events EXCEPT ![e] = <<>>]
               /\ emitting' = Detach(e, set)
          ELSE /\ events' = [events EXCEPT ![e] = set]
               /\ UNCHANGED emitting
    /\ UNCHANGED <<svars, now, published, wvars, cvars>>

\* removeAllListeners(event): the Map entry is deleted, the Set is not
\* cleared.
RemoveAllListeners(e) ==
    /\ eops < MaxEmitterOps
    /\ CanCall
    /\ eops' = eops + 1
    /\ events' = [events EXCEPT ![e] = <<>>]
    /\ emitting' = IF events[e] # <<>> THEN Detach(e, events[e]) ELSE emitting
    /\ UNCHANGED <<subs, svars, now, published, wvars, cvars>>

\* emit(event, data) is called: it takes the topic's Set from the Map.
EmitStart(e) ==
    /\ eops < MaxEmitterOps
    /\ ~emitting.active
    /\ eops' = eops + 1
    /\ emitting' = IF events[e] = <<>> THEN NotEmitting
                   ELSE [NotEmitting EXCEPT !.active = TRUE, !.topic = e,
                                            !.atStart = Live(events[e]),
                                            !.order = InOrder(events[e])]
    /\ UNCHANGED events
    /\ UNCHANGED <<subs, svars, now, published, wvars, cvars>>

\* The index of the next entry forEach visits, 0 when there is none.
NextEntry ==
    LET rest == {i \in DOMAIN Iterated : i > emitting.pos /\ Iterated[i] # 0}
    IN IF rest = {} THEN 0 ELSE CHOOSE i \in rest : \A j \in rest : i <= j

\* A callback without its try/catch: the fault of the handler ends forEach
\* and emit(), and reaches the publisher. C22 must tell it apart from the
\* code.
HandlerReturnsUncaught(em, threw) ==
    IF threw THEN [NotEmitting EXCEPT !.fault = TRUE] ELSE em

\* The callback of forEach after handler(data): a fault of the handler is
\* caught and logged, forEach goes on.
HandlerReturns(em, threw) ==
    IF threw THEN [em EXCEPT !.caught = @ \cup {Len(em.invoked)}] ELSE em

\* once(event, handler): a new onceHandler is registered with on(). The
\* onceHandler made in the n-th call of the emitter for handler h is the
\* function NumHandlers * n + h: a function of its own, above the handlers
\* that on() and off() of the application name.
Once(e, h) ==
    /\ eops < MaxEmitterOps
    /\ CanCall
    /\ eops' = eops + 1
    /\ events' = [events EXCEPT ![e] = SetAdd(@, NumHandlers * eops' + h)]
    /\ UNCHANGED emitting
    /\ UNCHANGED <<subs, svars, now, published, wvars, cvars>>

\* forEach calls the next handler, which returns or throws. A onceHandler
\* calls the handler it wraps; when that one throws, so does the onceHandler,
\* before its off().
EmitVisit(threw) ==
    /\ emitting.active
    /\ emitting.once = 0
    /\ NextEntry # 0
    /\ emitting' = HandlerReturns(
                       [emitting EXCEPT !.pos = NextEntry,
                                        !.invoked = Append(@, Iterated[NextEntry]),
                                        !.once = IF Iterated[NextEntry] > NumHandlers /\ ~threw
                                                 THEN Iterated[NextEntry] ELSE 0],
                       threw)
    /\ UNCHANGED <<events, eops>>
    /\ UNCHANGED <<subs, svars, now, published, wvars, cvars>>

\* The onceHandler after handler(data) has returned: this.off(event,
\* onceHandler), then it returns to forEach.
OnceOff ==
    /\ emitting.active
    /\ emitting.once # 0
    /\ LET e == emitting.topic
           set == SetDelete(events[e], emitting.once)
       IN IF events[e] # <<>> /\ Live(set) = {}
          THEN /\ events' = [events EXCEPT ![e] = <<>>]
               /\ emitting' = [Detach(e, set) EXCEPT !.once = 0]
          ELSE /\ events' = [events EXCEPT ![e] = set]
               /\ emitting' = [emitting EXCEPT !.once = 0]
    /\ UNCHANGED eops
    /\ UNCHANGED <<subs, svars, now, published, wvars, cvars>>

\* forEach has no entry left: emit() returns.
EmitReturn ==
    /\ emitting.active
    /\ emitting.once = 0
    /\ NextEntry = 0
    /\ emitting' = NotEmitting
    /\ UNCHANGED <<events, eops>>
    /\ UNCHANGED <<subs, svars, now, published, wvars, cvars>>

(* ------------------- StorageManager and the merchants ----------------- *)

\* Number of merchants the application switches between; merchant 0 stands
\* for no merchantUsername configured.
NumMerchants == 2

Merchants == 1..NumMerchants

\* Number of wishlist calls in a behaviour that switches merchants.
MaxMerchantCalls == 1

\* Strings are sequences of characters (of tokens, for the fixed parts). The
\* username of merchant m is "u" repeated m times.
Username(m) == [j \in 1..m |-> "u"]

\* config.merchantUsername ? `inkress-${config.merchantUsername}` : 'inkress'
Prefix(m) == IF m = 0 THEN <<"inkress">> ELSE <<"inkress", "-">> \o Username(m)

\* BrowserStorage.getStorageKey(): `${this.prefix}:${this.key}`
getStorageKey(prefix, key) == prefix \o <<":", key>>

Kinds == {"cart", "wishlist"}

AllKeys == {getStorageKey(Prefix(m), k) : m \in 0..NumMerchants, k \in Kinds}

\* String.prototype.startsWith
StartsWith(str, pat) ==
    Len(str) >= Len(pat) /\ SubSeq(str, 1, Len(pat)) = pat

\* The keys of the resources in use.
WishlistKey == getStorageKey(Prefix(merchant), "wishlist")
CartKey == getStorageKey(Prefix(merchant), "cart")

\* localStorage, restricted to the keys of the cart and wishlist of every
\* merchant.
LocalStorage ==
    [k \in AllKeys |->
        IF k = WishlistKey THEN localStore
        ELSE IF k = CartKey THEN cartStore
        ELSE parked[k]]

\* setMerchant(username) -> updateConfig({merchantUsername}): a new
\* StorageManager, CartResource and WishlistResource are made and
\* Object.assign copies their fields onto this.cart and this.wishlist: the
\* storage of both is replaced, and so is userId (undefined in the new
\* WishlistResource). Calls in flight go on with the replaced fields.
SetMerchant(m) ==
    /\ merchant' = m
    /\ localStore' = LocalStorage[getStorageKey(Prefix(m), "wishlist")]
    /\ cartStore' = LocalStorage[getStorageKey(Prefix(m), "cart")]
    /\ parked' = [k \in AllKeys |->
                     IF k \in {getStorageKey(Prefix(m), kd) : kd \in Kinds}
                     THEN None ELSE LocalStorage[k]]
    /\ userId' = 0
    /\ UNCHANGED <<storageAvailable, quotaExceeded, remoteCart, rcall, http, now,
                   published, remote, nextId,
                   calls, ncalls, mq, cartNextId, cartCalls, cartLast, cartLog,
                   evars>>

\* clearLocalData() -> StorageManager.clearAll(): every key that starts
\* with `${this.prefix}:` is removed; nothing is removed when there is no
\* localStorage.
ClearLocalData ==
    /\ LET pattern == Prefix(merchant) \o <<":">>
           cleared == [k \in AllKeys |->
                          IF storageAvailable /\ StartsWith(k, pattern)
                          THEN None ELSE LocalStorage[k]]
       IN /\ localStore' = cleared[WishlistKey]
          /\ cartStore' = cleared[CartKey]
          /\ parked' = [k \in AllKeys |->
                           IF k \in {WishlistKey, CartKey} THEN None
                           ELSE cleared[k]]
    /\ UNCHANGED <<storageAvailable, quotaExceeded, merchant, remoteCart, rcall,
                   http, now, published, remote,
                   userId, nextId, calls, ncalls, mq, cartNextId, cartCalls,
                   cartLast, cartLog, evars>>

\* setUserId(userId) -> WishlistResource.setUserId: the owner identity of
\* the wishlist in use.
SetUserId(u) ==
    /\ userId' = u
    /\ UNCHANGED <<svars, now, published, localStore, remote, nextId, calls,
                   ncalls, mq, cvars, evars>>

\* setAuthToken(token) -> updateConfig({authToken}): the configuration of
\* the HttpClient changes; without a merchantUsername no resource is made
\* anew.
SetAuthToken == UNCHANGED vars

(* --------------------------- the remote cart -------------------------- *)

\* Number of variants of a product, and of remote cart calls in a behaviour.
NumVariants == 2
MaxRemoteCartCalls == 1

\* The data of a remote cart (CartDataInput) is [items, total, quantity]; a
\* line (CartLineItem) is [product_id, variant_id, quantity, unit_price].
\* A cart data that keeps the totals it fetched: what C32 must tell apart
\* from the code.
updatedCartDataStaleTotals(c, data) ==
    Some([data EXCEPT !.items = SelectSeq(@, LAMBDA l :
              ~(l.product_id = c.product_id /\ l.variant_id = c.variant_id))])

\* The cartData that addItemToRemoteCart, removeItemFromRemoteCart and
\* updateItemQuantityInRemoteCart hand to updateRemoteCart, from the data
\* they fetched; None when the method returns an error without writing.
updatedCartData(c, data) ==
    LET Match(l) == l.product_id = c.product_id /\ l.variant_id = c.variant_id
        \* items.findIndex(...), 0 for -1
        i == IF \E k \in DOMAIN data.items : Match(data.items[k])
             THEN CHOOSE k \in DOMAIN data.items :
                     /\ Match(data.items[k])
                     /\ \A j \in 1..(k - 1) : ~Match(data.items[j])
             ELSE 0
        removed == SelectSeq(data.items, LAMBDA l : ~Match(l))
        added == IF i > 0
                 THEN [data.items EXCEPT ![i].quantity = @ + c.quantity]
                 ELSE Append(data.items,
                             [product_id |-> c.product_id,
                              variant_id |-> c.variant_id,
                              quantity |-> c.quantity,
                              unit_price |-> c.unit_price])
        updated == [data.items EXCEPT ![i].quantity = c.quantity]
        \* the two items.reduce(...) that recalculate the totals
        Recalculated(items) ==
            [data EXCEPT
                !.items = items,
                !.total = SumSubtotal([k \in DOMAIN items |->
                              [price |-> items[k].unit_price,
                               quantity |-> items[k].quantity]]),
                !.quantity = SumQuantity(items)]
    IN CASE c.op = "addItemToRemoteCart" -> Some(Recalculated(added))
         [] c.op = "removeItemFromRemoteCart" -> Some(Recalculated(removed))
         [] c.op = "updateItemQuantityInRemoteCart" ->
               IF c.quantity <= 0 THEN Some(Recalculated(removed))
               ELSE IF i > 0 THEN Some(Recalculated(updated))
               ELSE None

\* The application calls addItemToRemoteCart, removeItemFromRemoteCart or
\* updateItemQuantityInRemoteCart (awaiting the call before) : the method
\* awaits client.get(`/carts/${cartId}`).
RemoteCartCall(op, productId, variantId, quantity, price) ==
    /\ rcall.pc \in {"idle", "done"}
    /\ rcall.n < MaxRemoteCartCalls
    /\ rcall' = [op |-> op, product_id |-> productId, variant_id |-> variantId,
                 quantity |-> quantity, unit_price |-> price, pc |-> "get",
                 fetched |-> None, body |-> None, ok |-> FALSE, n |-> rcall.n + 1]
    /\ UNCHANGED <<storageAvailable, quotaExceeded, merchant, parked, remoteCart,
                   http, now, published, wvars, cvars, evars>>

\* The response to the GET arrives: with the cart (ok, and the server holds
\* it) the method computes the new cartData and awaits updateRemoteCart;
\* otherwise it ends with an error (state 'error', or the client throws).
RemoteCartGetReturn(ok) ==
    /\ rcall.pc = "get"
    /\ LET found == ok /\ remoteCart # None
           data == updatedCartData(rcall, remoteCart[1])
       IN rcall' = IF found /\ data # None
                   THEN [rcall EXCEPT !.pc = "put", !.fetched = remoteCart,
                                      !.body = data]
                   ELSE [rcall EXCEPT !.pc = "done", !.ok = FALSE]
    /\ UNCHANGED <<storageAvailable, quotaExceeded, merchant, parked, remoteCart,
                   http, now, published, wvars, cvars, evars>>

\* The response to the PUT arrives: when it succeeded the server holds the
\* data written.
RemoteCartPutReturn(ok) ==
    /\ rcall.pc = "put"
    /\ remoteCart' = IF ok THEN rcall.body ELSE remoteCart
    /\ rcall' = [rcall EXCEPT !.pc = "done", !.ok = ok]
    /\ UNCHANGED <<storageAvailable, quotaExceeded, merchant, parked, http, now,
                   published, wvars, cvars, evars>>

(* ---------------------------- the HttpClient -------------------------- *)

\* Largest config.retries.
MaxRetries == 2

\* What one fetch() can come to: no response (a transport failure, or the
\* timeout wins the race: status 0), or a response with a status, whose body
\* is a JSON text, empty, not a JSON text, or cannot be read to its end.
Responses ==
    {[status |-> 0, body |-> "none"]}
    \cup [status : {200, 404, 500}, body : {"json", "empty", "invalid", "unreadable"}]

\* makeRequest(): None when it returns, Some(status) when it throws an
\* InkressApiError of that status. An error that is not an InkressApiError
\* (a rejected fetch, the timeout, a rejected response.text(), a SyntaxError
\* of JSON.parse(responseText)) is wrapped with status 0.
makeRequest(resp) ==
    IF resp.status = 0 \/ resp.body = "unreadable" THEN Some(0)
    ELSE IF resp.status \notin 200..299 THEN Some(resp.status)
    ELSE IF resp.body = "invalid" THEN Some(0)
    ELSE None

shouldRetry(status) == status >= 500 \/ status = 0

\* get / post / put / delete / patch: retryRequest(path, options) with
\* config.retries, which issues the first attempt.
HttpRequest(retries) ==
    /\ http.pc = "idle"
    /\ http' = [pc |-> "fetch", retries |-> retries, left |-> retries,
                attempts |-> <<>>, error |-> None]
    /\ UNCHANGED <<storageAvailable, quotaExceeded, merchant, parked, remoteCart,
                   rcall, now, published, wvars, cvars, evars>>

\* The attempt in flight comes to resp: retryRequest returns the result,
\* throws the error, or (after the delay) calls itself with retries - 1,
\* which issues the next attempt.
HttpResponse(resp) ==
    /\ http.pc = "fetch"
    /\ LET error == makeRequest(resp)
           h == [http EXCEPT !.attempts = Append(@, resp)]
       IN http' = IF error = None THEN [h EXCEPT !.pc = "done"]
                  ELSE IF http.left > 0 /\ shouldRetry(error[1])
                  THEN [h EXCEPT !.left = @ - 1]
                  ELSE [h EXCEPT !.pc = "done", !.error = error]
    /\ UNCHANGED <<storageAvailable, quotaExceeded, merchant, parked, remoteCart,
                   rcall, now, published, wvars, cvars, evars>>

(* --------------------------- specifications --------------------------- *)

\* After construction no call was made and the clock was not read.
InitIdle ==
    /\ now = 0
    /\ nextId = 2
    /\ calls = [i \in CallIds |-> NoCall]
    /\ ncalls = 0
    /\ mq = <<>>
    /\ published = <<>>
    /\ cartNextId = 2
    /\ cartCalls = 0
    /\ cartLast = NoCartCall
    /\ cartLog = <<>>
    /\ rcall = [op |-> "none", product_id |-> 0, variant_id |-> 0, quantity |-> 0,
                unit_price |-> 0, pc |-> "idle", fetched |-> None, body |-> None,
                ok |-> FALSE, n |-> 0]
    /\ http = [pc |-> "idle", retries |-> 0, left |-> 0, attempts |-> <<>>,
               error |-> None]
    /\ events = [e \in Topics |-> <<>>]
    /\ emitting = NotEmitting
    /\ eops = 0
    /\ subs = <<>>

\* The storage medium works, no merchant username is configured and
\* localStorage holds nothing under the keys of the merchants.
InitCalls ==
    /\ InitIdle
    /\ storageAvailable = TRUE
    /\ quotaExceeded = FALSE
    /\ remoteCart = None
    /\ merchant = 0
    /\ parked = [k \in AllKeys |-> None]

\* The wishlist after construction: the Local Store and the owner's remote
\* record hold what an earlier session left; the user id is set or not.
Init ==
    /\ InitCalls
    /\ localStore \in SeedLocal
    /\ userId \in {0, 1}
    /\ remote \in (IF userId = 0 THEN {None} ELSE SeedRemote)
    /\ cartStore = None

\* The cart after construction: the Local Store holds what an earlier
\* session left.
InitCart ==
    /\ InitCalls
    /\ localStore = None
    /\ userId = 0
    /\ remote = None
    /\ cartStore \in SeedCarts

\* The wishlist after construction, with an owner whose remote record holds
\* a payload that is not a wishlist.
InitMalformed ==
    /\ InitCalls
    /\ localStore \in SeedLocal
    /\ userId = 1
    /\ remote = Some(MalformedWishlist)
    /\ cartStore = None

\* Either engine after construction over a medium that is unavailable (no
\* window.localStorage) or full (setItem throws); what an earlier session
\* stored is still there.
InitDegraded ==
    /\ InitIdle
    /\ storageAvailable \in BOOLEAN
    /\ quotaExceeded = storageAvailable
    /\ remoteCart = None
    /\ merchant = 0
    /\ parked = [k \in AllKeys |-> None]
    /\ \/ /\ localStore \in SeedLocal
          /\ userId \in {0, 1}
          /\ remote \in (IF userId = 0 THEN {None} ELSE SeedRemote)
          /\ cartStore = None
       \/ /\ localStore = None
          /\ userId = 0
          /\ remote = None
          /\ cartStore \in SeedCarts

\* A wishlist another merchant's session left: product 2 under entry id 1.
SeedOtherWishlist ==
    [items |-> <<[id |-> 1, product |-> 2, added_at |-> 0]>>,
     total_items |-> 1, updated_at |-> 0]

\* The SDK constructed for merchant 1, without owner identity; earlier
\* sessions left collections under the keys of merchant 1 and merchant 2.
InitMerchants ==
    /\ InitIdle
    /\ storageAvailable = TRUE
    /\ quotaExceeded = FALSE
    /\ remoteCart = None
    /\ merchant = 1
    /\ parked = [k \in AllKeys |->
                    IF k = getStorageKey(Prefix(2), "wishlist")
                    THEN Some(SeedOtherWishlist)
                    ELSE IF k = getStorageKey(Prefix(2), "cart")
                    THEN Some(SeedCart)
                    ELSE None]
    /\ localStore \in SeedLocal
    /\ userId = 0
    /\ remote = None
    /\ cartStore \in SeedCarts

\* The EventEmitter after construction: no handler is registered.
InitEvents ==
    /\ InitCalls
    /\ localStore = None
    /\ userId = 0
    /\ remote = None
    /\ cartStore = None

\* The times a reading of the clock can give.
Times == now..MaxTime

\* The jobs and network completions of the calls in flight, the remote
\* calls succeeding or not as Outcomes says.
RunWith(Outcomes) ==
    \/ \E p \in CallIds, ok \in Outcomes : FetchReturn(p, ok)
    \/ \E p \in CallIds, ok \in Outcomes : PostReturn(p, ok)
    \/ \E p \in CallIds, t \in Times : GetResume(p, t)
    \/ \E p \in CallIds : HasRet(p)
    \/ \E p \in CallIds : AddK1(p)
    \/ \E p \in CallIds, t \in Times : AddK2(p, t)
    \/ \E p \in CallIds : AddK3(p)
    \/ \E p \in CallIds, t \in Times : RmiK1(p, t)
    \/ \E p \in CallIds : RmiK2(p)
    \/ \E p \in CallIds : RmpK1(p)
    \/ \E p \in CallIds : TogK1(p)
    \/ \E p \in CallIds : TogK2(p)
    \/ \E p \in CallIds : ClrK1(p)
    \/ \E p \in CallIds, t \in Times : SrtK1(p, t)
    \/ \E p \in CallIds : SrtK2(p)
    \/ \E p \in CallIds : RmpThen(p)
    \/ \E p \in CallIds : RmpSettle(p)

Run == RunWith(BOOLEAN)

\* Calls may overlap: the application may call while earlier calls are
\* suspended.
Next ==
    \/ \E oa \in FetchFirstOps : Invoke(oa[1], oa[2])
    \/ \E t \in Times : InvokeClear(t)
    \/ Run

Spec == Init /\ [][Next]_vars

\* Overlapping calls, every remote call succeeding.
NextReliable ==
    \/ \E oa \in FetchFirstOps : Invoke(oa[1], oa[2])
    \/ \E t \in Times : InvokeClear(t)
    \/ RunWith({TRUE})

SpecReliable == Init /\ [][NextReliable]_vars

\* Every operation of the wishlist, calls overlapping.
NextLive ==
    \/ \E oa \in FetchFirstOps : Invoke(oa[1], oa[2])
    \/ \E t \in Times : InvokeClear(t)
    \/ InvokeSyncFromRemote
    \/ \E t \in Times : InvokeSyncToRemote(t)
    \/ \E p \in CallIds, t \in Times : SfrK1(p, t)
    \/ \E p \in CallIds : StoK1(p)
    \/ Run

\* The event loop runs every job that is ready, and every remote call
\* returns or fails: the jobs and the network completions are taken when
\* they stay possible.
SpecLive ==
    /\ Init
    /\ [][NextLive]_vars
    /\ WF_vars(Run)
    /\ WF_vars(\E p \in CallIds, t \in Times : SfrK1(p, t))
    /\ WF_vars(\E p \in CallIds : StoK1(p))

\* Awaited calls: the application calls only when every earlier call has
\* resolved.
NextSeq ==
    \/ AllResolved /\ \E oa \in FetchFirstOps : Invoke(oa[1], oa[2])
    \/ AllResolved /\ \E t \in Times : InvokeClear(t)
    \/ Run

SpecSeq == Init /\ [][NextSeq]_vars

\* The wishlist over a malformed remote record, calls awaited.
SpecMalformed == InitMalformed /\ [][NextSeq]_vars

\* The explicit sync operations, between addItem calls; calls are awaited.
\* The Local accessors are called at any time.
NextSync ==
    \/ \E oa \in LocalCalls, t \in Times : CallLocal(oa[1], oa[2], t)
    \/ AllResolved /\ InvokeSyncFromRemote
    \/ AllResolved /\ \E t \in Times : InvokeSyncToRemote(t)
    \/ AllResolved /\ \E pr \in Products : Invoke("addItem", pr)
    \/ \E p \in CallIds, ok \in BOOLEAN : FetchReturn(p, ok)
    \/ \E p \in CallIds, ok \in BOOLEAN : PostReturn(p, ok)
    \/ \E p \in CallIds, t \in Times : SfrK1(p, t)
    \/ \E p \in CallIds : StoK1(p)
    \/ \E p \in CallIds, t \in Times : GetResume(p, t)
    \/ \E p \in CallIds : HasRet(p)
    \/ \E p \in CallIds : AddK1(p)
    \/ \E p \in CallIds, t \in Times : AddK2(p, t)
    \/ \E p \in CallIds : AddK3(p)

SpecSync == Init /\ [][NextSync]_vars

\* The wishlists an earlier session can have left to sort: up to
\* MaxSortEntries entries of different products, in any order.
MaxSortEntries == 2
SortSeeds ==
    UNION {{[items |-> [i \in 1..n |-> [id |-> i, product |-> ps[i],
                                        added_at |-> ds[i]]],
             total_items |-> n, updated_at |-> 0] :
               ps \in {f \in [1..n -> Products] :
                          \A i, j \in 1..n : i # j => f[i] # f[j]},
               ds \in [1..n -> 0..MaxTime]} : n \in 0..MaxSortEntries}

\* Before a sort operation: the Local Store and the owner's remote record
\* hold a wishlist each, or nothing.
InitSort ==
    /\ InitCalls
    /\ localStore \in {None} \cup {Some(w) : w \in SortSeeds}
    /\ userId \in {0, 1}
    /\ remote \in (IF userId = 0 THEN {None}
                   ELSE {None} \cup {Some(w) : w \in SortSeeds})
    /\ cartStore = None

\* The application calls sort(), sortByName(), sortByPrice() or
\* sortByDateAdded() and awaits it.
MaxSortCalls == 1
NextSort ==
    \/ ncalls < MaxSortCalls /\ Invoke("sort", SortDefault)
    \/ ncalls < MaxSortCalls
          /\ \E k \in SortKinds \ {SortDefault} : Invoke("sortBy", k)
    \/ \E p \in CallIds, ok \in BOOLEAN : FetchReturn(p, ok)
    \/ \E p \in CallIds, ok \in BOOLEAN : PostReturn(p, ok)
    \/ \E p \in CallIds, t \in Times : GetResume(p, t)
    \/ \E p \in CallIds, t \in Times : SrtK1(p, t)
    \/ \E p \in CallIds : SrtK2(p)
    \/ \E p \in CallIds : RmpThen(p)
    \/ \E p \in CallIds : RmpSettle(p)

SpecSort == InitSort /\ [][NextSort]_vars

\* Two merchants: the application switches merchant, sets the owner
\* identity and the token, clears the local data and clears the cart at any
\* time, also while an addItem of the wishlist is suspended.
NextMerchants ==
    \/ \E m \in Merchants : SetMerchant(m)
    \/ SetUserId(1)
    \/ SetAuthToken
    \/ ClearLocalData
    \/ ncalls < MaxMerchantCalls /\ \E pr \in Products : Invoke("addItem", pr)
    \/ \E p \in CallIds, ok \in BOOLEAN : FetchReturn(p, ok)
    \/ \E p \in CallIds, ok \in BOOLEAN : PostReturn(p, ok)
    \/ \E p \in CallIds, t \in Times : GetResume(p, t)
    \/ \E p \in CallIds : HasRet(p)
    \/ \E p \in CallIds : AddK1(p)
    \/ \E p \in CallIds, t \in Times : AddK2(p, t)
    \/ \E p \in CallIds : AddK3(p)
    \/ \E t \in Times : CartClear(t)

SpecMerchants == InitMerchants /\ [][NextMerchants]_vars

\* The cart calls; an entry identifier is one ever generated, or 0 (none).
NextCart ==
    \/ \E pr \in ProductSnapshots, q \in Quantities, t \in Times :
           CartAddItem(pr, q, t)
    \/ \E id \in 0..(cartNextId - 1), t \in Times : CartRemoveItem(id, t)
    \/ \E pid \in Products, t \in Times : CartRemoveProduct(pid, t)
    \/ \E id \in 0..(cartNextId - 1), q \in Quantities, t \in Times :
           CartUpdateItemQuantity(id, q, t)
    \/ \E t \in Times : CartClear(t)

SpecCart == InitCart /\ [][NextCart]_vars

\* A scripted session on the cart, kept in cartLog: up to SessionLen calls
\* among addItem of product 1 (price 10) or product 2 (price 5) in quantity
\* 1 or 2, updateItemQuantity(entry, 0) and clear().
SessionLen == 4
SessionProducts == {[id |-> 1, price |-> 10], [id |-> 2, price |-> 5]}

SessionCall(op, arg, quantity, t, out) ==
    /\ cartCalls < SessionLen
    /\ CartReturn(op, arg, quantity, t, out)
    /\ cartLog' = Append(cartLog, cartLast')

NextSession ==
    \/ \E pr \in SessionProducts, q \in {1, 2}, t \in Times :
           SessionCall("addItem", pr.id, q, t, cartAddItem(pr, q, t))
    \/ \E id \in 1..(cartNextId - 1), t \in Times :
           SessionCall("updateItemQuantity", id, 0, t,
                       cartUpdateItemQuantity(id, 0, t))
    \/ \E t \in Times : SessionCall("clear", 0, 0, t, cartClear(t))

\* The session starts from an empty cart.
InitSession ==
    /\ InitCalls
    /\ localStore = None
    /\ userId = 0
    /\ remote = None
    /\ cartStore = None

SpecSession == InitSession /\ [][NextSession]_vars

\* The remote cart before the calls: the server holds no such cart, an empty
\* cart, a cart of one line, or a cart of two variants of product 1 whose
\* totals were written by another client (updateRemoteCart passes any
\* input through).
InitRemote ==
    /\ InitIdle
    /\ storageAvailable = TRUE
    /\ quotaExceeded = FALSE
    /\ merchant = 0
    /\ parked = [k \in AllKeys |-> None]
    /\ localStore = None
    /\ userId = 0
    /\ remote = None
    /\ cartStore = None
    /\ remoteCart \in
         {None,
          Some([items |-> <<>>, total |-> 0, quantity |-> 0]),
          Some([items |-> <<[product_id |-> 1, variant_id |-> 1,
                             quantity |-> 1, unit_price |-> 1]>>,
                total |-> 1, quantity |-> 1]),
          Some([items |-> <<[product_id |-> 1, variant_id |-> 1,
                             quantity |-> 2, unit_price |-> 1],
                            [product_id |-> 1, variant_id |-> 2,
                             quantity |-> 1, unit_price |-> 2]>>,
                total |-> 0, quantity |-> 0])}

\* The remote cart calls, awaited, or one request of the HttpClient.
NextRemote ==
    \/ rcall.n = 0 /\ \E retries \in 0..MaxRetries : HttpRequest(retries)
    \/ \E resp \in Responses : HttpResponse(resp)
    \/ \E pid \in Products, vid \in 1..NumVariants, q \in Quantities,
          pr \in 1..MaxPrice :
           http.pc = "idle" /\ RemoteCartCall("addItemToRemoteCart", pid, vid, q, pr)
    \/ \E pid \in Products, vid \in 1..NumVariants :
           http.pc = "idle" /\ RemoteCartCall("removeItemFromRemoteCart", pid, vid, 0, 0)
    \/ \E pid \in Products, vid \in 1..NumVariants, q \in Quantities :
           http.pc = "idle" /\ RemoteCartCall("updateItemQuantityInRemoteCart", pid, vid, q, 0)
    \/ \E ok \in BOOLEAN : RemoteCartGetReturn(ok)
    \/ \E ok \in BOOLEAN : RemoteCartPutReturn(ok)

SpecRemote == InitRemote /\ [][NextRemote]_vars

\* The cart and the wishlist share no state (distinct storage keys, distinct
\* topics): a behaviour of SpecEngines drives one of the two, with awaited
\* calls, the other being unused and empty.
NextEngines ==
    \/ cartCalls = 0 /\ cartStore = None /\ NextSeq
    \/ ncalls = 0 /\ localStore = None /\ userId = 0 /\ NextCart

\* The wishlist mutations that publish a change event, with their
\* arguments.
MutationOps ==
    {<<o, pr>> : o \in {"addItem", "toggleProduct"}, pr \in Products}
    \cup {<<"removeItem", id>> : id \in 0..(nextId - 1)}

\* The mutations of the wishlist, awaited.
NextMutations ==
    \/ AllResolved /\ \E oa \in MutationOps : Invoke(oa[1], oa[2])
    \/ AllResolved /\ \E t \in Times : InvokeClear(t)
    \/ \E p \in CallIds, ok \in BOOLEAN : FetchReturn(p, ok)
    \/ \E p \in CallIds, ok \in BOOLEAN : PostReturn(p, ok)
    \/ \E p \in CallIds, t \in Times : GetResume(p, t)
    \/ \E p \in CallIds : HasRet(p)
    \/ \E p \in CallIds : AddK1(p)
    \/ \E p \in CallIds, t \in Times : AddK2(p, t)
    \/ \E p \in CallIds : AddK3(p)
    \/ \E p \in CallIds, t \in Times : RmiK1(p, t)
    \/ \E p \in CallIds : RmiK2(p)
    \/ \E p \in CallIds : RmpK1(p)
    \/ \E p \in CallIds : TogK1(p)
    \/ \E p \in CallIds : TogK2(p)
    \/ \E p \in CallIds : ClrK1(p)
    \/ \E p \in CallIds : RmpThen(p)
    \/ \E p \in CallIds : RmpSettle(p)

\* The mutations of either engine; a behaviour drives one of the two.
NextDegraded ==
    \/ cartCalls = 0 /\ cartStore = None /\ NextMutations
    \/ ncalls = 0 /\ localStore = None /\ userId = 0 /\ NextCart

\* The mutations of either engine over a medium that is unavailable or full.
SpecDegraded == InitDegraded /\ [][NextDegraded]_vars

\* The EventEmitter: the application and the handlers a running emit() has
\* called register and unregister handlers.
NextEvents ==
    \/ \E e \in Topics, h \in Handlers : On(e, h)
    \/ \E e \in Topics, h \in Handlers : Off(e, h)
    \/ \E e \in Topics, h \in Handlers : Once(e, h)
    \/ \E k \in 1..MaxEmitterOps : Unsubscribe(k)
    \/ \E e \in Topics : RemoveAllListeners(e)
    \/ \E e \in Topics : EmitStart(e)
    \/ \E threw \in BOOLEAN : EmitVisit(threw)
    \/ OnceOff
    \/ EmitReturn

SpecEvents == InitEvents /\ [][NextEvents]_vars

\* Either engine, from its state after construction.
InitEngines == Init \/ InitCart

SpecEngines == InitEngines /\ [][NextEngines]_vars

(* ------------------------------ properties ---------------------------- *)

WishlistMutations ==
    {"addItem", "removeItem", "removeProduct", "toggleProduct", "clear", "sort"}

Done(p) == p \in 1..ncalls /\ calls[p].pc = "done"

\* The change events call p has published, in order.
EventsOf(p) == SelectSeq(published, LAMBDA e : e.call = p)

(* C1 *)

\* Calls p and q are overlapping addItem calls of different products that
\* have both resolved, and no call was made since.
OverlappingAdds(p, q) ==
    /\ p < q /\ q = ncalls
    /\ Done(p) /\ Done(q)
    /\ calls[p].op = "addItem" /\ calls[q].op = "addItem"
    /\ calls[p].arg # calls[q].arg
    /\ calls[q].overlapped

\* C1: once two overlapping addItem calls of different products have both
\* resolved, the Local Store contains both products.
C1_NoLostUpdate ==
    \A p, q \in CallIds :
        OverlappingAdds(p, q) =>
            /\ hasProductLocal(calls[p].arg)
            /\ hasProductLocal(calls[q].arg)

(* C4 *)

\* C4: no wishlist mutation issues a remote fetch.
C4_MutationsNeverFetch ==
    \A p \in CallIds :
        calls[p].op \in WishlistMutations => calls[p].net # "fetch"

(* C5 *)

\* C5: change events are published in the order in which their calls were
\* invoked (calls are numbered in invocation order).
C5_EventsInInvocationOrder ==
    \A i, j \in DOMAIN published :
        i < j => published[i].call <= published[j].call

(* C2 *)

\* The topic on which a resolved wishlist mutation publishes its change.
WishlistTopic(c) ==
    CASE c.op = "addItem" -> "wishlist:item:added"
      [] c.op \in {"removeItem", "removeProduct"} -> "wishlist:item:removed"
      [] c.op = "toggleProduct" ->
            IF c.resb THEN "wishlist:item:added" ELSE "wishlist:item:removed"
      [] c.op = "clear" -> "wishlist:cleared"

\* The topic on which the last cart mutation publishes its change.
CartTopic ==
    CASE cartLast.op = "addItem" -> "cart:item:added"
      [] cartLast.op \in {"removeItem", "removeProduct"} -> "cart:item:removed"
      [] cartLast.op = "updateItemQuantity" ->
            IF cartLast.quantity <= 0 THEN "cart:item:removed"
            ELSE "cart:item:updated"
      [] cartLast.op = "clear" -> "cart:cleared"

EventMutations == WishlistMutations \ {"sort"}

\* The last cart call addressed an entry or product that the cart lacked.
CartNothingToChange ==
    /\ cartLast.op \in {"removeItem", "removeProduct", "updateItemQuantity"}
    /\ ~cartLast.found

\* C2 as stated: every resolved cart or wishlist mutation call has published
\* exactly one change event, on its corresponding topic.
C2_ExactlyOneEvent ==
    /\ \A p \in CallIds :
          (Done(p) /\ calls[p].op \in EventMutations) =>
              /\ Len(EventsOf(p)) = 1
              /\ EventsOf(p)[1].topic = WishlistTopic(calls[p])
    /\ cartLast.op # "none" =>
          /\ Len(cartLast.emitted) = 1
          /\ cartLast.emitted[1].topic = CartTopic

\* C2, amended: a mutation call publishes at most one change event; a
\* resolved call has published exactly one, on its corresponding topic,
\* unless it found nothing to change (wishlist addItem of a product it found
\* present, wishlist removeProduct of a product it found absent, alone or
\* inside toggleProduct; cart removeItem, removeProduct or
\* updateItemQuantity of an entry the cart lacks), and then none.
C2_OneEventUnlessNothingToChange ==
    /\ \A p \in CallIds :
          /\ Len(EventsOf(p)) <= 1
          /\ (Done(p) /\ calls[p].op \in EventMutations) =>
                IF calls[p].early
                THEN EventsOf(p) = <<>>
                ELSE /\ Len(EventsOf(p)) = 1
                     /\ EventsOf(p)[1].topic = WishlistTopic(calls[p])
    /\ cartLast.op # "none" =>
          IF CartNothingToChange
          THEN cartLast.emitted = <<>>
          ELSE /\ Len(cartLast.emitted) = 1
               /\ cartLast.emitted[1].topic = CartTopic

\* A wishlist addItem that found the product present has resolved without
\* an event, after an earlier call has published one.
C2_Witness ==
    /\ Done(2) /\ calls[2].op = "addItem" /\ calls[2].early
    /\ EventsOf(2) = <<>>
    /\ Len(EventsOf(1)) = 1

(* C3 *)

\* The collection carries the mutation of call c.
Mutated(c, w) ==
    CASE c.op = "addItem" -> HasProductIn(w, c.arg)
      [] c.op = "removeItem" -> \A i \in DOMAIN w.items : w.items[i].id # c.arg
      [] c.op = "clear" -> w.items = <<>>
      [] c.op = "sort" ->
            \A i, j \in DOMAIN w.items :
                i < j => w.items[i].added_at >= w.items[j].added_at

\* The remote write of call p was made and failed, p has resolved, and no
\* call was made since.
RemoteWriteFailed(p) ==
    /\ Done(p) /\ p = ncalls
    /\ calls[p].op \in {"addItem", "removeItem", "clear", "sort"}
    /\ calls[p].post = "failed"

\* C3: when the remote write of addItem, removeItem, clear or sort fails,
\* the call resolves with the mutated collection, the Local Store holds
\* that collection when the call resolves (no call was made since), and the
\* change event of the mutation was published (sort publishes none).
C3_RemoteFailureIsolated ==
    \A p \in CallIds :
        RemoteWriteFailed(p) =>
            /\ calls[p].res # None
            /\ Mutated(calls[p], calls[p].res[1])
            /\ localStore = calls[p].res
            /\ IF calls[p].op = "sort"
               THEN EventsOf(p) = <<>>
               ELSE /\ Len(EventsOf(p)) = 1
                    /\ EventsOf(p)[1].topic = WishlistTopic(calls[p])

\* An addItem whose remote write failed has resolved, with an owner set.
C3_Witness ==
    /\ userId # 0
    /\ RemoteWriteFailed(ncalls)
    /\ calls[ncalls].op = "addItem"
    /\ hasProductLocal(calls[ncalls].arg)

(* C6 *)

\* Call p is a toggleProduct call that has resolved, and no call was made
\* since.
ToggleResolved(p) ==
    /\ p = ncalls /\ Done(p)
    /\ calls[p].op = "toggleProduct"

\* C6: a toggleProduct(P) call that found P absent ends with P present,
\* added = true and one wishlist:item:added event; one that found P present
\* ends with P absent, added = false and one wishlist:item:removed event.
C6_ToggleExactlyOne ==
    \A p \in CallIds :
        ToggleResolved(p) =>
            LET c == calls[p]
            IN /\ c.resb = ~c.before
               /\ hasProductLocal(c.arg) = c.resb
               /\ Len(EventsOf(p)) = 1
               /\ EventsOf(p)[1].topic = WishlistTopic(c)

(* C7 *)

\* total_items is the sum of the quantities and subtotal the sum of price
\* times quantity.
TotalsHold(cart) ==
    /\ cart.total_items = SumQuantity(cart.items)
    /\ cart.subtotal = SumSubtotal(cart.items)

AddThenHas(p) ==
    /\ Done(p) /\ Done(p + 1)
    /\ calls[p].op = "addItem"
    /\ calls[p + 1].op = "hasProduct"
    /\ calls[p + 1].arg = calls[p].arg
    /\ ~calls[p + 1].overlapped

\* Call p is an addItem(P) that has resolved, and no call was made since.
AddResolved(p) ==
    /\ p = ncalls /\ Done(p)
    /\ calls[p].op = "addItem"

C9_LateHandlerNotInvoked ==
    emitting.active =>
        \A i \in DOMAIN emitting.invoked : emitting.invoked[i] \in emitting.atStart

(* C10 *)

\* Calls 1 and 2 are toggleProduct(P) calls, the second made after the
\* first resolved, and both have resolved.
TwoToggles ==
    /\ ncalls = 2 /\ Done(1) /\ Done(2)
    /\ calls[1].op = "toggleProduct" /\ calls[2].op = "toggleProduct"
    /\ calls[1].arg = calls[2].arg
    /\ ~calls[2].overlapped

\* C10: two sequential toggleProduct(P) calls leave the membership of P as
\* it was before the first call.
C10_DoubleToggleRestores ==
    TwoToggles => (hasProductLocal(calls[1].arg) = calls[1].before)

(* C11 *)

\* The next job is the mutation of a wishlist removeItem whose identifier
\* matches no entry of the wishlist it read.
WishlistRemovesNothing(p) ==
    /\ Ready(p, "rmi.k1")
    /\ \A i \in DOMAIN calls[p].ret[1].items :
          calls[p].ret[1].items[i].id # calls[p].itemId

\* The step is a cart removeItem whose identifier matches no entry.
CartRemovesNothing ==
    /\ cartCalls' = cartCalls + 1
    /\ cartLast'.op = "removeItem"
    /\ ~cartLast'.found

\* C11: removing an identifier that matches no entry leaves the Local Store
\* as it was and returns the pre-call collection, updated_at included
\* (wishlist removeItem and cart removeItem).
C11_EmptyRemoveChangesNothing ==
    [][/\ \A p \in CallIds :
             WishlistRemovesNothing(p) =>
                 /\ localStore' = localStore
                 /\ calls'[p].wl = calls[p].ret
       /\ CartRemovesNothing =>
             /\ cartStore' = cartStore
             /\ (cartStore # None => cartLast'.res = cartStore)]_vars

(* C12 *)

\* C12: every entry of the stored cart has quantity >= 1.
C12_QuantitiesPositive ==
    cartStore # None =>
        \A i \in DOMAIN cartStore[1].items : cartStore[1].items[i].quantity >= 1

(* C13 *)

\* The next job is the resumption of a get() of call p after
\* getRemoteWishlist() has returned.
GetResumes(p) == Ready(p, "get.resume")

\* What that get() returns in the step: the value the call resolves with, or
\* the value handed to the method awaiting it.
GetReturned(p) ==
    IF calls[p].stack = <<>> THEN calls'[p].res ELSE calls'[p].ret

C14_FallbackToLocal ==
    [][\A p \in CallIds :
          (GetResumes(p) /\ calls[p].fetched = None) =>
              /\ localStore' = localStore
              /\ IF localStore = None
                 THEN GetReturned(p) # None /\ GetReturned(p)[1].items = <<>>
                 ELSE GetReturned(p) = localStore]_vars

\* With an owner set and a remote record that differs from the Local Store
\* (the remote write of the addItem failed), get() has resolved with the two
\* local entries and the Local Store still holds them.
C14_Witness ==
    /\ userId # 0 /\ ncalls = 2
    /\ Done(1) /\ calls[1].op = "addItem" /\ calls[1].post = "failed"
    /\ Done(2) /\ calls[2].op = "get"
    /\ calls[2].res = localStore /\ localStore # remote
    /\ Len(localStore[1].items) = 2

(* C15 *)

\* C15: over a remote record that is not a well-formed wishlist, no call
\* faults and the Local Store is never overwritten with the malformed
\* payload.
C15_MalformedTreatedAsAbsent ==
    /\ \A p \in CallIds : ~calls[p].fault
    /\ localStore # None => WellFormed(localStore[1])

(* C16 *)

\* The step is a get() installing the remote record it fetched.
PullStep == \E p \in CallIds : GetResumes(p) /\ calls[p].fetched # None

WishlistProductsUnique(w) ==
    \A i, j \in DOMAIN w.items :
        w.items[i].product = w.items[j].product => i = j

\* No two entries of the cart reference the same product id.
CartProductsUnique(cart) ==
    \A i, j \in DOMAIN cart.items :
        cart.items[i].product.id = cart.items[j].product.id => i = j

\* C17: no two entries of a collection reference the same product id, in
\* the collection a call returned, in the Local Store and in the remote
\* record.
C17_ProductsUnique ==
    /\ localStore # None => WishlistProductsUnique(localStore[1])
    /\ remote # None => WishlistProductsUnique(remote[1])
    /\ \A p \in CallIds :
          calls[p].res # None => WishlistProductsUnique(calls[p].res[1])
    /\ cartStore # None => CartProductsUnique(cartStore[1])
    /\ cartLast.res # None => CartProductsUnique(cartLast.res[1])

(* C18 *)

\* The price applied to every entry of the cart is the price of its stored
\* product snapshot.
PricesMatchSnapshots(cart) ==
    \A i \in DOMAIN cart.items : cart.items[i].price = cart.items[i].product.price

\* C18: no step changes the price applied to an entry that stays in the
\* cart, and the price of an entry equals the price of its product snapshot.
C18_PriceCapturedAtAdd ==
    [][cartStore' # None =>
          /\ PricesMatchSnapshots(cartStore'[1])
          /\ cartStore # None =>
                \A i \in DOMAIN cartStore[1].items :
                    \A j \in DOMAIN cartStore'[1].items :
                        cartStore[1].items[i].id = cartStore'[1].items[j].id =>
                            cartStore[1].items[i].price = cartStore'[1].items[j].price]_vars

(* C19 *)

\* C19: while the remote write of a wishlist mutation is pending, the change
\* event of the mutation has already been published (sort publishes none).
C19_EventBeforeRemoteWrite ==
    \A p \in CallIds :
        (calls[p].net = "post" /\ calls[p].op # "sort") => Len(EventsOf(p)) = 1

(* C20 *)

\* The identifiers of the entries of a stored collection.
EntryIds(store) ==
    IF store = None THEN {} ELSE {store[1].items[i].id : i \in DOMAIN store[1].items}

\* The step is the call of wishlist clear().
WishlistClearStep == ncalls' = ncalls + 1 /\ calls'[ncalls'].op = "clear"

\* The step is the mutation of a wishlist removeItem addressed at ids.
WishlistRemovalStep(ids) ==
    \E p \in CallIds : Ready(p, "rmi.k1") /\ ids \subseteq {calls[p].itemId}

\* The step is a cart clear(), or a cart removal addressed at the entries
\* ids.
CartDiscardStep(ids) ==
    /\ cartCalls' = cartCalls + 1
    /\ \/ cartLast'.op = "clear"
       \/ /\ cartLast'.op \in {"removeItem", "updateItemQuantity"}
          /\ ids \subseteq {cartLast'.arg}
       \/ /\ cartLast'.op = "removeProduct"
          /\ \A i \in DOMAIN cartStore[1].items :
                cartStore[1].items[i].id \in ids =>
                    cartStore[1].items[i].product.id = cartLast'.arg

\* C20: a step drops entries from a locally stored collection only if it is
\* an explicit clear or a removal addressed at those entries.
C20_EntriesDiscardedOnlyOnRequest ==
    [][/\ (EntryIds(localStore) \ EntryIds(localStore')) # {} =>
             \/ WishlistClearStep
             \/ WishlistRemovalStep(EntryIds(localStore) \ EntryIds(localStore'))
       /\ (EntryIds(cartStore) \ EntryIds(cartStore')) # {} =>
             CartDiscardStep(EntryIds(cartStore) \ EntryIds(cartStore'))]_vars

(* C22 *)

\* The step ends the emit() in progress.
EmitEnds == emitting.active /\ ~emitting'.active

\* C22: no fault of a handler reaches the caller of emit(), and when emit()
\* ends every handler registered for the topic was invoked.
C22_HandlerFaultIsolated ==
    [][/\ ~emitting'.fault
       /\ EmitEnds => Live(Iterated) \subseteq SeqToSet(emitting.invoked)]_vars

\* A handler threw, a later handler of the same emit() was invoked, and
\* emit() is about to return.
C22_Witness ==
    /\ emitting.active
    /\ NextEntry = 0
    /\ \E i \in emitting.caught : i < Len(emitting.invoked)

(* C23 *)

\* C23: when emit() ends it has invoked the handlers that were registered
\* for the topic when it was called, once each, in registration order.
C23_InvokedInRegistrationOrder ==
    [][EmitEnds => emitting.invoked = emitting.order]_vars

(* C24 *)

\* C24: a step that removes handlers from the Set of one topic leaves the
\* Set of every other topic as it was.
C24_UnsubscribeOneTopic ==
    [][\A e \in Topics :
          (Live(events'[e]) # Live(events[e]) /\ Live(events'[e]) \subseteq Live(events[e]))
              => \A x \in Topics \ {e} : events'[x] = events[x]]_vars

\* Handler 1 was unsubscribed from one topic, where handler 2 remains, and
\* is still registered on another topic.
C24_Witness ==
    \E e \in Topics, x \in Topics :
        /\ e # x
        /\ 0 \in SeqToSet(events[e])
        /\ Live(events[e]) = {2}
        /\ 1 \in Live(events[x])

(* C25 *)

\* The step is a call updateItemQuantity(id, q) with q <= 0.
UpdateToNonPositive ==
    /\ cartCalls' = cartCalls + 1
    /\ cartLast'.op = "updateItemQuantity"
    /\ cartLast'.quantity <= 0

\* C25: updateItemQuantity(id, q) with q <= 0 returns, stores and publishes
\* what removeItem(id) does in the same state at the same time.
C25_NonPositiveUpdateIsRemoval ==
    [][UpdateToNonPositive =>
          LET out == cartRemoveItem(cartLast'.arg, now')
          IN /\ cartLast'.res = Some(out.res)
             /\ cartStore' = out.store
             /\ cartLast'.emitted = out.emitted
             /\ \A i \in DOMAIN cartLast'.emitted :
                    cartLast'.emitted[i].topic = "cart:item:removed"]_vars

\* updateItemQuantity(id, q) with q <= 0 was called on an entry of the cart
\* and published one cart:item:removed event.
C25_Witness ==
    /\ cartLast.op = "updateItemQuantity"
    /\ cartLast.quantity <= 0
    /\ cartLast.found
    /\ Len(cartLast.emitted) = 1
    /\ cartLast.emitted[1].topic = "cart:item:removed"
    /\ cartStore # None
    /\ CartFindItem(cartStore[1], cartLast.arg) = 0

(* C26 *)

SyncOps == {"syncFromRemote", "syncToRemote"}

\* The step is made by a sync call: its invocation or one of its jobs.
SyncStep ==
    \/ ncalls' = ncalls + 1 /\ calls'[ncalls'].op \in SyncOps
    \/ \E p \in CallIds : Ready(p, "sfr.k1") \/ Ready(p, "sto.k1")

\* C26: without an owner identity a sync call sends no request and does not
\* fault, its steps leave the Local Store and the remote record as they
\* were, and syncFromRemote resolves to the wishlist of the Local Store (an
\* empty one when there is none).
C26_SyncWithoutOwnerIsNoOp ==
    [][userId = 0 =>
          /\ \A p \in CallIds :
                calls'[p].op \in SyncOps =>
                    calls'[p].net = "none" /\ ~calls'[p].fault
          /\ SyncStep => localStore' = localStore /\ remote' = remote
          /\ \A p \in CallIds :
                (Ready(p, "sfr.k1") /\ Done(p)') =>
                    /\ calls'[p].res # None
                    /\ localStore # None => calls'[p].res = localStore
                    /\ localStore = None => calls'[p].res[1].items = <<>>]_vars

\* Without an owner identity, syncToRemote and then syncFromRemote have
\* resolved over a Local Store that holds entries, the latter to the stored
\* wishlist.
C26_Witness ==
    /\ userId = 0
    /\ ncalls = 2 /\ Done(1) /\ Done(2)
    /\ calls[1].op = "syncToRemote"
    /\ calls[2].op = "syncFromRemote"
    /\ localStore # None
    /\ localStore[1].items # <<>>
    /\ calls[2].res = localStore

(* C27 *)

\* The step is the call of a Local accessor.
LocalStep == ncalls' = ncalls + 1 /\ calls'[ncalls'].op \in LocalOps

\* C27: the call of a Local accessor is over in the step that makes it,
\* sends no request, schedules no job, and leaves the Local Store, the
\* remote record and the requests in flight as they were.
C27_LocalAccessorsAreLocal ==
    [][LocalStep =>
          /\ calls'[ncalls'].pc = "done"
          /\ calls'[ncalls'].net = "none"
          /\ mq' = mq
          /\ localStore' = localStore
          /\ remote' = remote
          /\ \A q \in 1..ncalls :
                calls'[q].net = calls[q].net /\ calls'[q].body = calls[q].body]_vars

\* With an owner identity, hasProductLocal(P) returned true while the remote
\* write of an addItem was still in flight.
C27_Witness ==
    /\ userId = 1
    /\ ncalls = 2
    /\ calls[1].op = "addItem" /\ calls[1].net = "post"
    /\ calls[2].op = "hasProductLocal" /\ calls[2].pc = "done"
    /\ calls[2].arg = calls[1].arg
    /\ calls[2].resb

(* C28 *)

\* The step is a job of a wishlist call.
JobStep == mq # <<>> /\ calls' # calls /\ ncalls' = ncalls

\* The merchant the step is done for: the merchant in use when the call
\* was made, for a job of a wishlist call; else the merchant in use.
StepMerchant == IF JobStep THEN calls[Head(mq)].merchant ELSE merchant

\* C28: a step changes the content of localStorage only under the keys of
\* the merchant it is done for; setMerchant changes none.
C28_MerchantsIsolated ==
    [][\A k \in AllKeys :
          LocalStorage'[k] # LocalStorage[k] =>
              /\ merchant' = merchant
              /\ k \in {getStorageKey(Prefix(StepMerchant), kd) : kd \in Kinds}]_vars

(* C21 *)

\* The medium is unavailable, or every write to it fails.
Degraded == ~storageAvailable \/ quotaExceeded

SortOps == {"sort", "sortBy"}

\* The entries a store holds, and their count as stored.
StoredItems(store) == IF store = None THEN <<>> ELSE store[1].items
StoredTotal(store) == IF store = None THEN 0 ELSE store[1].total_items

\* b holds the entries of a, each as often as a does.
IsPermutation(a, b) ==
    /\ Len(a) = Len(b)
    /\ \A i \in DOMAIN a :
          Cardinality({j \in DOMAIN a : a[j] = a[i]})
              = Cardinality({j \in DOMAIN b : b[j] = a[i]})

\* items is ordered by the comparator of the sort operation k.
Ordered(items, k) ==
    \A i, j \in DOMAIN items : i < j => Compare(k, items[i], items[j]) <= 0

\* The sort call p resolves in the step: with a wishlist ordered by its
\* comparator, which the Local Store holds, and the remote record too when
\* an owner is configured and the remote write succeeded.
SortResolves(p) ==
    (calls'[p].pc = "done") =>
        /\ ~calls'[p].fault
        /\ calls'[p].res # None
        /\ Ordered(calls'[p].res[1].items, calls[p].arg)
        /\ calls'[p].res[1].total_items = Len(calls'[p].res[1].items)
        /\ localStore' = calls'[p].res
        /\ userId # 0 => /\ calls'[p].post # "none"
                         /\ calls'[p].post = "ok" => remote' = calls'[p].res

\* C29: throughout a call of sort, sortByName, sortByPrice or
\* sortByDateAdded the Local Store keeps the same entries and the same
\* total_items, and no event is published; the call returns those entries
\* ordered by its comparator, stored locally, and written to the remote
\* record when an owner is configured.
C29_SortOnlyReorders ==
    [][\A p \in CallIds :
          (InFlight(calls[p]) /\ calls[p].op \in SortOps) =>
              /\ IsPermutation(StoredItems(StorageGet), StoredItems(localStore'))
              /\ StoredTotal(localStore') = StoredTotal(StorageGet)
              /\ published' = published
              /\ SortResolves(p)]_vars


(* C30 *)

\* Call i of the session is addItem of product pid in quantity q.
IsAdd(i, pid, q) ==
    /\ cartLog[i].op = "addItem"
    /\ cartLog[i].arg = pid
    /\ cartLog[i].quantity = q

\* The session so far follows the scenario: addItem({id: 1, price: 10}, 2),
\* addItem({id: 2, price: 5}, 1), updateItemQuantity(the entry of product 1,
\* 0), clear().
FollowsScenario(n) ==
    /\ Len(cartLog) >= n
    /\ n >= 1 => IsAdd(1, 1, 2)
    /\ n >= 2 => IsAdd(2, 2, 1)
    /\ n >= 3 =>
          LET cart == cartLog[2].res[1]
          IN /\ cartLog[3].op = "updateItemQuantity"
             /\ cartLog[3].quantity = 0
             /\ CartFindProduct(cart, 1) > 0
             /\ cartLog[3].arg = cart.items[CartFindProduct(cart, 1)].id
    /\ n >= 4 => cartLog[4].op = "clear"

\* total_items and subtotal of the cart call i returned.
SessionTotals(i) ==
    <<cartLog[i].res[1].total_items, cartLog[i].res[1].subtotal>>

\* C30: from an empty cart, addItem({id: 1, price: 10}, 2) returns a cart
\* with total_items 2 and subtotal 20; then addItem({id: 2, price: 5}, 1)
\* returns 3 and 25; then updateItemQuantity(entry of product 1, 0) removes
\* that entry and returns 1 and 5; then clear() returns 0 and 0 and
\* publishes exactly one cart:cleared event, which carries the empty cart
\* (the cart the Local Store holds until the next call).
C30_CartScenario ==
    /\ FollowsScenario(1) => SessionTotals(1) = <<2, 20>>
    /\ FollowsScenario(2) => SessionTotals(2) = <<3, 25>>
    /\ FollowsScenario(3) =>
          /\ SessionTotals(3) = <<1, 5>>
          /\ CartFindProduct(cartLog[3].res[1], 1) = 0
          /\ CartFindProduct(cartLog[3].res[1], 2) > 0
    /\ FollowsScenario(4) =>
          /\ SessionTotals(4) = <<0, 0>>
          /\ cartLog[4].res[1].items = <<>>
          /\ Len(cartLog[4].emitted) = 1
          /\ cartLog[4].emitted[1].topic = "cart:cleared"
          /\ cartLog[4].emitted[1].payload = cartLog[4].res[1]
          /\ Len(cartLog) = 4 => cartStore = cartLog[4].res

\* The four calls of the scenario were made, and the cart is empty.
C30_Witness ==
    /\ FollowsScenario(4)
    /\ Len(cartLog) = 4
    /\ cartStore # None /\ cartStore[1].items = <<>>


(* C31 *)

\* The change events call p has published after the step.
EventsOfNext(p) == SelectSeq(published', LAMBDA e : e.call = p)

\* C31: within one wishlist mutation call, the snapshot handed to the remote
\* write is in the Local Store when the write is issued; the call publishes
\* its change event once, after it has written the Local Store (which still
\* holds what it wrote); and the step in which a remote call completes
\* publishes nothing.
C31_StepsOrdered ==
    [][\A p \in CallIds :
          /\ (calls[p].net # "post" /\ calls'[p].net = "post") =>
                 localStore' = calls'[p].body
          /\ EventsOfNext(p) # EventsOf(p) =>
                 /\ EventsOf(p) = <<>>
                 /\ Len(EventsOfNext(p)) = 1
                 /\ calls[p].wl # None
                 /\ localStore = calls[p].wl
          /\ (calls[p].net # "none" /\ calls'[p].net = "none") =>
                 published' = published]_vars

\* An addItem whose remote write succeeded has resolved with its one event.
C31_Witness ==
    /\ userId # 0
    /\ Done(ncalls) /\ calls[ncalls].op = "addItem"
    /\ calls[ncalls].post = "ok"
    /\ Len(EventsOf(ncalls)) = 1
    /\ localStore = calls[ncalls].res


(* C32 *)

\* The lines of data other than the line of (productId, variantId).
OtherLines(data, productId, variantId) ==
    SelectSeq(data.items, LAMBDA l :
        ~(l.product_id = productId /\ l.variant_id = variantId))

\* total and quantity of data are the sums over its lines, and no two lines
\* have the same (product_id, variant_id).
CartDataConsistent(data) ==
    /\ data.total = SumSubtotal([k \in DOMAIN data.items |->
                        [price |-> data.items[k].unit_price,
                         quantity |-> data.items[k].quantity]])
    /\ data.quantity = SumQuantity(data.items)
    /\ \A i, j \in DOMAIN data.items :
          (/\ data.items[i].product_id = data.items[j].product_id
           /\ data.items[i].variant_id = data.items[j].variant_id) => i = j

FailedToRespond(resp) == resp.status = 0 \/ resp.status >= 500

\* The attempt came to a 2xx response.
Succeeded(resp) == resp.status \in 200..299

\* C38: one request makes at most retries + 1 attempts; an attempt is
\* followed by another only when it came to a 5xx response, a transport
\* failure or a timeout (never a 4xx response, never a success); after the
\* last attempt the request has failed unless that attempt succeeded; with
\* retries = 0 it makes exactly one attempt.
C38_RetriesBounded ==
    /\ Len(http.attempts) <= http.retries + 1
    /\ \A i \in 1..(Len(http.attempts) - 1) : FailedToRespond(http.attempts[i])
    /\ (http.pc = "fetch" /\ http.attempts # <<>>) =>
           FailedToRespond(http.attempts[Len(http.attempts)])
    /\ http.pc = "done" =>
           /\ http.attempts # <<>>
           /\ ~Succeeded(http.attempts[Len(http.attempts)]) => http.error # None
           /\ http.retries = 0 => Len(http.attempts) = 1


(* C33 *)

\* C33: in the step that delivers a change event, the collection of its
\* payload (for the wishlist, the collection the call wrote and returns) is
\* the collection the Local Store holds.
C33_PayloadIsStored ==
    [][/\ \A p \in CallIds :
             EventsOfNext(p) # EventsOf(p) => localStore' = calls[p].wl
       /\ cartCalls' = cartCalls + 1 =>
             \A i \in DOMAIN cartLast'.emitted :
                 cartStore' = Some(cartLast'.emitted[i].payload)]_vars


(* C34 *)

\* C34 as stated: with an owner configured and every remote call
\* succeeding, once all the calls made (overlapping or not) have resolved,
\* the remote record, if there is one, is the collection of the Local Store:
\* a following get() returns what getLocal() returns.
C34_RemoteEqualsLocal ==
    (userId # 0 /\ ncalls > 0 /\ AllResolved) =>
        (remote # None => remote = localStore)

\* C34 amended: the same when no call was made while another was in flight.
C34_AwaitedRemoteEqualsLocal ==
    (/\ userId # 0 /\ ncalls > 0 /\ AllResolved
     /\ \A p \in 1..ncalls : ~calls[p].overlapped) =>
        (remote # None => remote = localStore)

\* Two awaited addItem calls have left two entries, locally and remotely.
C34_Witness ==
    /\ userId # 0 /\ ncalls = 2 /\ AllResolved
    /\ \A p \in 1..ncalls : ~calls[p].overlapped /\ calls[p].op = "addItem"
    /\ remote # None /\ remote = localStore
    /\ Len(remote[1].items) = 2


(* C35 *)

\* C35: once set, the owner identity stays configured: no step (setMerchant,
\* updateConfig, setAuthToken, a wishlist call) leaves the wishlist without
\* the owner identity it had.
C35_OwnerStays == [][userId # 0 => userId' = userId]_vars

(* C36 *)

\* The function is a onceHandler.
IsOnce(x) == x > NumHandlers

\* The invocations of the running emit() that are over: all but one that
\* has still to unregister its onceHandler.
InvocationsOver ==
    {i \in DOMAIN emitting.invoked :
        i < Len(emitting.invoked) \/ emitting.once = 0}

\* C36: a handler registered with once() is unregistered when its
\* invocation is over, whether it returned or threw, so that no later emit
\* invokes it.
C36_OnceUnregisters ==
    \A i \in InvocationsOver :
        IsOnce(emitting.invoked[i])
            => \A e \in Topics : emitting.invoked[i] \notin Live(events[e])

(* C37 *)

\* The step is a call of the k-th function returned by on().
UnsubscribeStep(k) ==
    /\ k \in DOMAIN subs
    /\ Len(subs') = Len(subs)
    /\ subs'[k].calls = subs[k].calls + 1

\* C37: the function returned by on() removes only the registration that
\* created it. Its first call leaves the handler unregistered from its
\* topic; a further call, made after the handler was registered anew, leaves
\* that newer registration in place.
C37_UnsubscribeOwnRegistration ==
    [][\A k \in 1..MaxEmitterOps :
          UnsubscribeStep(k) =>
              IF subs[k].calls = 0
              THEN subs[k].handler \notin Live(events'[subs[k].topic])
              ELSE events' = events]_vars

(* C39 *)

\* C39: every wishlist call that was made eventually resolves, its promise
\* fulfilled, whether its remote calls succeed or fail.
C39_EveryCallResolves ==
    \A p \in CallIds :
        (p <= ncalls) ~> (calls[p].pc = "done" /\ ~calls[p].fault)

\* All calls of a behaviour have resolved: a syncToRemote whose write
\* failed, and a call made while it was in flight.
C39_Witness ==
    /\ ncalls = MaxCalls
    /\ AllResolved
    /\ \E p \in 1..ncalls :
          calls[p].op = "syncToRemote" /\ calls[p].post = "failed"
    /\ \E p \in 1..ncalls : calls[p].overlapped
=============================================================================

